---- MODULE Spec2Model ----
(***************************************************************************)
(* A model of scim2-rs: the in-memory provider store (users, groups and    *)
(* the reverse membership kept in each user's groups list), the PATCH      *)
(* engine of patch.rs and the load-modify-store PATCH round trip of the    *)
(* Provider.                                                               *)
(*                                                                         *)
(* Option<T> is modelled as a set with at most one element: None is {} and *)
(* Some(x) is {x}.  A Vec is a sequence.  An IdOrdMap<GroupMember> is a    *)
(* set of members with pairwise different keys, iterated in key order.     *)
(***************************************************************************)
EXTENDS Integers, Sequences, FiniteSets, TLC

(***************************************************************************)
(* Bounds                                                                  *)
(***************************************************************************)
\* largest member list of a create/replace group request
MaxMembers == 2

\* the ids Uuid::new_v4 hands out in one run, in the order it does
UserIdPool == <<"u1", "u2">>
GroupIdPool == <<"g1", "g2">>
UserIds == {UserIdPool[i] : i \in 1..Len(UserIdPool)}
GroupIds == {GroupIdPool[i] : i \in 1..Len(GroupIdPool)}
\* an id that Uuid::new_v4 never hands out
UnknownId == "zz"

UserNames == {"jim", "Jim", "dwight"}
DisplayNames == {"sales", "mgmt"}

None == {}
Some(x) == {x}
Unwrap(o) == CHOOSE x \in o : TRUE

(***************************************************************************)
(* Strings: to_lowercase / eq_ignore_ascii_case on the strings of the      *)
(* model, and the order UniCase gives member keys.                         *)
(***************************************************************************)
to_lowercase(s) ==
    CASE s = "Jim" -> "jim"
      [] s = "Sales" -> "sales"
      [] s = "User" -> "user"
      [] s = "Group" -> "group"
      [] s = "U1" -> "u1"
      [] s = "G1" -> "g1"
      [] s = "G2" -> "g2"
      [] s = "U2" -> "u2"
      [] s = "U3" -> "u3"
      [] s = "userName" -> "username"
      [] s = "displayName" -> "displayname"
      [] s = "Eq" -> "eq"
      [] OTHER -> s

eq_ignore_ascii_case(a, b) == to_lowercase(a) = to_lowercase(b)

\* the keys of the model in UniCase (case-folded, lexicographic) order
KeyOrder == <<"g1", "g2", "g3", "u1", "u2", "u3", "zz">>
KeyRank(k) == CHOOSE i \in 1..Len(KeyOrder) : KeyOrder[i] = k

(***************************************************************************)
(* utils.rs: ResourceType                                                  *)
(***************************************************************************)
ResourceType_from_str(r) ==
    CASE to_lowercase(r) = "user" -> "User"
      [] to_lowercase(r) = "group" -> "Group"
      [] OTHER -> "invalid"

(***************************************************************************)
(* GroupMember and its IdOrdMap key                                        *)
(***************************************************************************)
GroupMember(resource_type, value) ==
    [resource_type |-> resource_type, value |-> value]

\* IdOrdItem::key: Option<UniCase<&str>> of the member's value
member_key(m) == IF m.value = None THEN "" ELSE to_lowercase(Unwrap(m.value))
member_rank(m) == IF m.value = None THEN 0 ELSE KeyRank(member_key(m))

\* the members of an IdOrdMap in iteration (key) order
RECURSIVE members_in_order(_)
members_in_order(ms) ==
    IF ms = {} THEN <<>>
    ELSE LET first == CHOOSE m \in ms :
                          \A n \in ms : member_rank(m) <= member_rank(n)
         IN <<first>> \o members_in_order(ms \ {first})

UserGroup(group_id, display) ==
    [member_type |-> Some("Direct"), value |-> Some(group_id),
     display |-> Some(display)]

(***************************************************************************)
(* The store operations, as functions of the store state (us: users,       *)
(* gs: groups) and the request.  Each returns the state the operation      *)
(* leaves behind when it releases the lock and the status it returns.      *)
(***************************************************************************)
Result(us, gs, status) == [users |-> us, groups |-> gs, status |-> status]

CreateUserRequest(name, active, external_id) ==
    [name |-> name, active |-> active, external_id |-> external_id]

CreateGroupRequest(display_name, external_id, members) ==
    [display_name |-> display_name, external_id |-> external_id,
     members |-> members]

\* get_group_member returning the member with the type the request gave
get_group_member_keeps_type(us, gs, member) ==
    IF member.value = None
    THEN [status |-> "invalid_syntax", member |-> member]
    ELSE LET value == Unwrap(member.value) IN
         IF member.resource_type # None
         THEN LET resource_type ==
                      ResourceType_from_str(Unwrap(member.resource_type))
              IN CASE resource_type = "invalid" ->
                          [status |-> "invalid_syntax", member |-> member]
                   [] resource_type = "User" ->
                          IF value \in DOMAIN us
                          THEN [status |-> "ok", member |-> member]
                          ELSE [status |-> "not_found", member |-> member]
                   [] resource_type = "Group" ->
                          [status |-> "internal", member |-> member]
         ELSE CASE value \notin DOMAIN us /\ value \notin DOMAIN gs ->
                       [status |-> "not_found", member |-> member]
                [] value \in DOMAIN us /\ value \notin DOMAIN gs ->
                       [status |-> "ok", member |-> member]
                [] OTHER -> [status |-> "internal", member |-> member]

\* InMemoryProviderStoreState::get_group_member
get_group_member(us, gs, member) ==
    IF member.value = None
    THEN [status |-> "invalid_syntax", member |-> member]
    ELSE LET value == Unwrap(member.value) IN
         IF member.resource_type # None
         THEN LET resource_type ==
                      ResourceType_from_str(Unwrap(member.resource_type))
              IN CASE resource_type = "invalid" ->
                          [status |-> "invalid_syntax", member |-> member]
                   [] resource_type = "User" ->
                          IF value \in DOMAIN us
                          THEN [status |-> "ok",
                                member |-> GroupMember(Some("User"), Some(value))]
                          ELSE [status |-> "not_found", member |-> member]
                   [] resource_type = "Group" ->
                          [status |-> "internal", member |-> member]
         ELSE CASE value \notin DOMAIN us /\ value \notin DOMAIN gs ->
                       [status |-> "not_found", member |-> member]
                [] value \in DOMAIN us /\ value \notin DOMAIN gs ->
                       [status |-> "ok",
                        member |-> GroupMember(Some("User"), Some(value))]
                [] OTHER -> [status |-> "internal", member |-> member]

\* Option<Vec<UserGroup>>::get_or_insert_default
get_or_insert_default(o) == IF o = None THEN <<>> ELSE Unwrap(o)

\* Vec::retain(|user_group| user_group.value.as_deref() != Some(group_id))
RECURSIVE retain_not_group(_, _)
retain_not_group(user_groups, group_id) ==
    IF user_groups = <<>> THEN <<>>
    ELSE IF Head(user_groups).value = Some(group_id)
         THEN retain_not_group(Tail(user_groups), group_id)
         ELSE <<Head(user_groups)>> \o retain_not_group(Tail(user_groups), group_id)

\* a replace_group / delete_group_by_id that forgot the reverse index
strip_group_forgotten(us, group_id) == us

\* "Delete all existing group membership for this group id"
strip_group(us, group_id) ==
    [u \in DOMAIN us |->
        IF us[u].groups = None THEN us[u]
        ELSE [us[u] EXCEPT
                 !.groups = Some(retain_not_group(Unwrap(@), group_id))]]

\* The member loop of create_group and replace_group: each member, in the
\* map's order, is resolved and then pushed onto its user's groups; the
\* first member that does not resolve ends the loop ("?") with the users
\* changed so far.
RECURSIVE add_members(_, _, _, _, _, _)
add_members(us, gs, todo, done, group_id, display_name) ==
    IF todo = <<>>
    THEN [users |-> us, members |-> done, status |-> "ok"]
    ELSE LET r == get_group_member(us, gs, Head(todo)) IN
         IF r.status # "ok"
         THEN [users |-> us, members |-> done, status |-> r.status]
         ELSE LET user_id == Unwrap(r.member.value)
                  pushed == [us EXCEPT ![user_id].groups =
                      Some(Append(get_or_insert_default(@),
                                  UserGroup(group_id, display_name)))]
              IN add_members(pushed, gs, Tail(todo), done \cup {r.member},
                             group_id, display_name)

\* a create_user that stores the user without its externalId
create_user_forgets_external_id(us, gs, id, user_request) ==
    IF \E u \in DOMAIN us : us[u].name = user_request.name
    THEN Result(us, gs, "conflict")
    ELSE LET new_user == [id |-> id,
                          name |-> user_request.name,
                          external_id |-> None,
                          active |-> user_request.active,
                          groups |-> None]
         IN Result(us @@ (id :> new_user), gs, "ok")

\* InMemoryProviderStore::create_user; id is the Uuid the call draws
create_user(us, gs, id, user_request) ==
    IF \E u \in DOMAIN us : us[u].name = user_request.name
    THEN Result(us, gs, "conflict")
    ELSE LET new_user == [id |-> id,
                          name |-> user_request.name,
                          external_id |-> user_request.external_id,
                          active |-> user_request.active,
                          groups |-> None]
         IN Result(us @@ (id :> new_user), gs, "ok")

\* a replace_user that stores the user without its groups
replace_user_drops_groups(us, gs, user_id, user_request) ==
    IF \E u \in DOMAIN us : us[u].name = user_request.name /\ us[u].id # user_id
    THEN Result(us, gs, "conflict")
    ELSE IF user_id \notin DOMAIN us
    THEN Result(us, gs, "not_found")
    ELSE Result([us EXCEPT ![user_id] =
                    [id |-> user_id,
                     name |-> user_request.name,
                     external_id |-> user_request.external_id,
                     active |-> user_request.active,
                     groups |-> None]],
                gs, "ok")

\* a replace_user whose uniqueness check does not exempt the target itself
replace_user_no_self_exemption(us, gs, user_id, user_request) ==
    IF \E u \in DOMAIN us : us[u].name = user_request.name
    THEN Result(us, gs, "conflict")
    ELSE IF user_id \notin DOMAIN us
    THEN Result(us, gs, "not_found")
    ELSE Result([us EXCEPT ![user_id] =
                    [id |-> user_id,
                     name |-> user_request.name,
                     external_id |-> user_request.external_id,
                     active |-> user_request.active,
                     groups |-> us[user_id].groups]],
                gs, "ok")

\* a replace_user that leaves a field the request omits at its stored value
replace_user_keeps_omitted(us, gs, user_id, user_request) ==
    IF \E u \in DOMAIN us : us[u].name = user_request.name /\ us[u].id # user_id
    THEN Result(us, gs, "conflict")
    ELSE IF user_id \notin DOMAIN us
    THEN Result(us, gs, "not_found")
    ELSE Result([us EXCEPT ![user_id] =
                    [id |-> user_id,
                     name |-> user_request.name,
                     external_id |-> IF user_request.external_id = None
                                     THEN us[user_id].external_id
                                     ELSE user_request.external_id,
                     active |-> IF user_request.active = None
                                THEN us[user_id].active
                                ELSE user_request.active,
                     groups |-> us[user_id].groups]],
                gs, "ok")

\* InMemoryProviderStore::replace_user
replace_user(us, gs, user_id, user_request) ==
    IF \E u \in DOMAIN us : us[u].name = user_request.name /\ us[u].id # user_id
    THEN Result(us, gs, "conflict")
    ELSE IF user_id \notin DOMAIN us
    THEN Result(us, gs, "not_found")
    ELSE Result([us EXCEPT ![user_id] =
                    [id |-> user_id,
                     name |-> user_request.name,
                     external_id |-> user_request.external_id,
                     active |-> user_request.active,
                     groups |-> us[user_id].groups]],
                gs, "ok")

\* the ids of a group's members / of the groups a user's entries name
member_ids(group) ==
    IF group.members = None THEN {}
    ELSE {Unwrap(m.value) : m \in {n \in Unwrap(group.members) : n.value # None}}
entries_of(user) ==
    IF user.groups = None THEN {}
    ELSE {Unwrap(user.groups)[i] : i \in 1..Len(Unwrap(user.groups))}
user_group_ids(user) == {Unwrap(e.value) : e \in entries_of(user)}

\* a delete_user_by_id that cascades to the groups' member lists
delete_user_cascading(us, gs, user_id) ==
    IF user_id \in DOMAIN us
    THEN Result([u \in DOMAIN us \ {user_id} |-> us[u]],
                [g \in DOMAIN gs |->
                    IF gs[g].members = None THEN gs[g]
                    ELSE [gs[g] EXCEPT !.members =
                             Some({m \in Unwrap(@) : m.value # Some(user_id)})]],
                "deleted")
    ELSE Result(us, gs, "not_found")

\* InMemoryProviderStore::delete_user_by_id
delete_user_by_id(us, gs, user_id) ==
    IF user_id \in DOMAIN us
    THEN Result([u \in DOMAIN us \ {user_id} |-> us[u]], gs, "deleted")
    ELSE Result(us, gs, "not_found")

\* InMemoryProviderStore::create_group; id is the Uuid the call draws
create_group(us, gs, id, group_request) ==
    IF \E g \in DOMAIN gs : gs[g].display_name = group_request.display_name
    THEN Result(us, gs, "conflict")
    ELSE IF group_request.members = None
    THEN Result(us,
                gs @@ (id :> [id |-> id,
                              display_name |-> group_request.display_name,
                              external_id |-> group_request.external_id,
                              members |-> None]),
                "ok")
    ELSE LET r == add_members(us, gs,
                      members_in_order(Unwrap(group_request.members)), {},
                      id, group_request.display_name)
         IN IF r.status # "ok"
            THEN Result(r.users, gs, r.status)
            ELSE Result(r.users,
                        gs @@ (id :> [id |-> id,
                                      display_name |-> group_request.display_name,
                                      external_id |-> group_request.external_id,
                                      members |-> Some(r.members)]),
                        "ok")

\* replace_group keeping the members the stored group already has
replace_group_merging(us, gs, group_id, group_request) ==
    IF \E g \in DOMAIN gs : gs[g].display_name = group_request.display_name
                              /\ gs[g].id # group_id
    THEN Result(us, gs, "conflict")
    ELSE LET kept == IF group_id \in DOMAIN gs /\ gs[group_id].members # None
                     THEN Unwrap(gs[group_id].members) ELSE {}
             listed == IF group_request.members = None THEN {}
                       ELSE Unwrap(group_request.members)
             r == add_members(strip_group(us, group_id), gs,
                      members_in_order(kept \cup
                          {m \in listed : \A k \in kept :
                                              member_key(k) # member_key(m)}),
                      {}, group_id, group_request.display_name)
         IN IF r.status # "ok"
            THEN Result(r.users, gs, r.status)
            ELSE IF group_id \notin DOMAIN gs
            THEN Result(r.users, gs, "not_found")
            ELSE Result(r.users,
                        [gs EXCEPT ![group_id] =
                            [id |-> group_id,
                             display_name |-> group_request.display_name,
                             external_id |-> group_request.external_id,
                             members |-> Some(r.members)]],
                        "ok")

\* InMemoryProviderStore::replace_group
replace_group(us, gs, group_id, group_request) ==
    IF \E g \in DOMAIN gs : gs[g].display_name = group_request.display_name
                              /\ gs[g].id # group_id
    THEN Result(us, gs, "conflict")
    ELSE LET stripped == strip_group(us, group_id)
             r == IF group_request.members = None
                  THEN [users |-> stripped, members |-> {}, status |-> "ok"]
                  ELSE add_members(stripped, gs,
                           members_in_order(Unwrap(group_request.members)), {},
                           group_id, group_request.display_name)
         IN IF r.status # "ok"
            THEN Result(r.users, gs, r.status)
            ELSE IF group_id \notin DOMAIN gs
            THEN Result(r.users, gs, "not_found")
            ELSE Result(r.users,
                        [gs EXCEPT ![group_id] =
                            [id |-> group_id,
                             display_name |-> group_request.display_name,
                             external_id |-> group_request.external_id,
                             members |-> IF group_request.members = None
                                         THEN None ELSE Some(r.members)]],
                        "ok")

\* InMemoryProviderStore::delete_group_by_id
delete_group_by_id(us, gs, group_id) ==
    IF group_id \in DOMAIN gs
    THEN Result(strip_group(us, group_id),
                [g \in DOMAIN gs \ {group_id} |-> gs[g]], "deleted")
    ELSE Result(us, gs, "not_found")

\* InMemoryProviderStore::get_user_by_id / get_group_by_id
get_user_by_id(us, user_id) ==
    IF user_id \in DOMAIN us THEN Some(us[user_id]) ELSE None
get_group_by_id(gs, group_id) ==
    IF group_id \in DOMAIN gs THEN Some(gs[group_id]) ELSE None

(***************************************************************************)
(* patch.rs: the PATCH engine.                                             *)
(*                                                                         *)
(* A path is a sequence of characters, so that parse_remove_path is        *)
(* modelled by what it does.  A JSON object is a set of fields             *)
(* <<name, type, value>>; a JSON value is an array of objects, an object   *)
(* or a string.                                                            *)
(***************************************************************************)
PATCHOP_URN == "urn:ietf:params:scim:api:messages:2.0:PatchOp"

JField(name, jtype, v) == <<name, jtype, v>>
JArray(items) == [kind |-> "array", items |-> items, fields |-> {}]
JObject(fields) == [kind |-> "object", items |-> <<>>, fields |-> fields]
JString == [kind |-> "string", items |-> <<>>, fields |-> {}]
has_field(obj, name, jtype) == \E f \in obj : f[1] = name /\ f[2] = jtype
field(obj, name) == (CHOOSE f \in obj : f[1] = name)[3]

Replace(path, value) == [op |-> "replace", path |-> path, value |-> value]
Add(path, value) == [op |-> "add", path |-> path, value |-> value]
Remove(path) == [op |-> "remove", path |-> Some(path), value |-> JString]
PatchRequest(schemas, operations) ==
    [schemas |-> schemas, operations |-> operations]

\* characters: char::to_lowercase, char::is_whitespace, and the characters
\* of the ids of the model
UpperCase == <<"A", "B", "C", "D", "E", "F", "G", "H", "I", "J", "K", "L", "M", "N", "O", "P", "Q", "R", "S", "T", "U", "V", "W", "X", "Y", "Z">>
LowerCase == <<"a", "b", "c", "d", "e", "f", "g", "h", "i", "j", "k", "l", "m", "n", "o", "p", "q", "r", "s", "t", "u", "v", "w", "x", "y", "z">>
lower_char(c) ==
    IF \E i \in 1..Len(UpperCase) : UpperCase[i] = c
    THEN LowerCase[CHOOSE i \in 1..Len(UpperCase) : UpperCase[i] = c]
    ELSE c
lower_chars(cs) == [i \in 1..Len(cs) |-> lower_char(cs[i])]
chars_eq_ignore_ascii_case(a, b) == lower_chars(a) = lower_chars(b)
chars_of(id) ==
    CASE id = "u1" -> <<"u", "1">> [] id = "u2" -> <<"u", "2">>
      [] id = "U1" -> <<"U", "1">> [] id = "U2" -> <<"U", "2">>
      [] id = "g1" -> <<"g", "1">> [] id = "g2" -> <<"g", "2">>
      [] id = "zz" -> <<"z", "z">>
      [] id = "jim" -> <<"j", "i", "m">>
      [] id = "Jim" -> <<"J", "i", "m">>
      [] id = "dwight" -> <<"d", "w", "i", "g", "h", "t">>
      [] id = "sales" -> <<"s", "a", "l", "e", "s">>
      [] id = "Sales" -> <<"S", "a", "l", "e", "s">>
      [] id = "mgmt" -> <<"m", "g", "m", "t">>
      [] id = "userName" -> <<"u", "s", "e", "r", "N", "a", "m", "e">>
      [] id = "displayName" -> <<"d", "i", "s", "p", "l", "a", "y", "N", "a", "m", "e">>
      [] id = "eq" -> <<"e", "q">>
      [] id = "Eq" -> <<"E", "q">>
      [] OTHER -> <<"?">>
MEMBERS == <<"m", "e", "m", "b", "e", "r", "s">>
MEMBERS_VALUE_EQ == MEMBERS \o <<"[", "v", "a", "l", "u", "e", " ", "e", "q", " ">>

RECURSIVE trim_start(_)
trim_start(cs) ==
    IF cs # <<>> /\ Head(cs) = " " THEN trim_start(Tail(cs)) ELSE cs
RECURSIVE trim_end(_)
trim_end(cs) ==
    IF cs # <<>> /\ cs[Len(cs)] = " "
    THEN trim_end(SubSeq(cs, 1, Len(cs) - 1)) ELSE cs
trim(cs) == trim_end(trim_start(cs))
starts_with(cs, prefix) ==
    Len(cs) >= Len(prefix) /\ SubSeq(cs, 1, Len(prefix)) = prefix
ends_with(cs, suffix) ==
    Len(cs) >= Len(suffix)
        /\ SubSeq(cs, Len(cs) - Len(suffix) + 1, Len(cs)) = suffix

\* PatchRequest::validate_schema
\* a check that only looks at the first entry of schemas
validate_schema_first_entry(request) ==
    request.schemas # <<>> /\ request.schemas[1] = PATCHOP_URN

\* PatchRequest::validate_schema: schemas is the one-element list [PATCHOP_URN]
validate_schema(request) ==
    request.schemas = <<PATCHOP_URN>>

\* IdOrdMap::insert_overwrite
insert_overwrite(ms, m) == {n \in ms : member_key(n) # member_key(m)} \cup {m}

\* Iterator::collect into an IdOrdMap: a later item replaces an earlier one
\* with the same key
RECURSIVE collect_members(_, _)
collect_members(ms, items) ==
    IF items = <<>> THEN ms
    ELSE collect_members(
             insert_overwrite(ms, GroupMember(Some("User"),
                                              Some(field(Head(items), "value")))),
             Tail(items))

\* Result<StoredParts<_>, PatchRequestError>: Ok carries the patched
\* resource, Err the kind of the error
PatchOk(resource) == [status |-> "ok", resource |-> Some(resource)]
PatchErr(status) == [status |-> status, resource |-> None]

\* a replace of members that stores the empty collection
apply_group_replace_op_keeps_empty(path, value, group) ==
    IF path # None
    THEN IF ~chars_eq_ignore_ascii_case(Unwrap(path), MEMBERS)
         THEN PatchErr("unsupported")
         ELSE IF ~(/\ value.kind = "array"
                   /\ \A i \in 1..Len(value.items) :
                          has_field(value.items[i], "value", "string"))
         THEN PatchErr("invalid")
         ELSE PatchOk([group EXCEPT !.members =
                          Some(collect_members({}, value.items))])
    ELSE IF ~(/\ value.kind = "object"
              /\ has_field(value.fields, "id", "string")
              /\ has_field(value.fields, "displayName", "string"))
         THEN PatchErr("unsupported")
         ELSE IF ~eq_ignore_ascii_case(group.id, field(value.fields, "id"))
         THEN PatchErr("invalid")
         ELSE PatchOk([group EXCEPT
                          !.display_name = field(value.fields, "displayName")])

\* a replace without path that does not compare the id
apply_group_replace_op_any_id(path, value, group) ==
    IF path # None
    THEN IF ~chars_eq_ignore_ascii_case(Unwrap(path), MEMBERS)
         THEN PatchErr("unsupported")
         ELSE IF ~(/\ value.kind = "array"
                   /\ \A i \in 1..Len(value.items) :
                          has_field(value.items[i], "value", "string"))
         THEN PatchErr("invalid")
         ELSE LET new_members == collect_members({}, value.items) IN
              PatchOk([group EXCEPT !.members =
                          IF new_members # {} THEN Some(new_members) ELSE None])
    ELSE IF ~(/\ value.kind = "object"
              /\ has_field(value.fields, "id", "string")
              /\ has_field(value.fields, "displayName", "string"))
         THEN PatchErr("unsupported")
         ELSE PatchOk([group EXCEPT
                          !.display_name = field(value.fields, "displayName")])

\* apply_group_replace_op
apply_group_replace_op(path, value, group) ==
    IF path # None
    THEN IF ~chars_eq_ignore_ascii_case(Unwrap(path), MEMBERS)
         THEN PatchErr("unsupported")
         ELSE IF ~(/\ value.kind = "array"
                   /\ \A i \in 1..Len(value.items) :
                          has_field(value.items[i], "value", "string"))
         THEN PatchErr("invalid")
         ELSE LET new_members == collect_members({}, value.items) IN
              PatchOk([group EXCEPT !.members =
                          IF new_members # {} THEN Some(new_members) ELSE None])
    ELSE IF ~(/\ value.kind = "object"
              /\ has_field(value.fields, "id", "string")
              /\ has_field(value.fields, "displayName", "string"))
         THEN PatchErr("unsupported")
         ELSE IF ~eq_ignore_ascii_case(group.id, field(value.fields, "id"))
         THEN PatchErr("invalid")
         ELSE PatchOk([group EXCEPT
                          !.display_name = field(value.fields, "displayName")])

\* add_stubs refusing a member the group already has
RECURSIVE add_stubs_rejects_existing(_, _)
add_stubs_rejects_existing(items, group) ==
    IF items = <<>> THEN PatchOk(group)
    ELSE LET member == Head(items)
             old == IF group.members = None THEN {} ELSE Unwrap(group.members)
             new == GroupMember(Some("User"), Some(field(member, "value")))
         IN
         IF ~(has_field(member, "value", "string")
                  /\ has_field(member, "display", "string"))
         THEN PatchErr("invalid")
         ELSE IF eq_ignore_ascii_case(group.display_name, field(member, "display"))
         THEN PatchErr("invalid")
         ELSE IF \E n \in old : member_key(n) = member_key(new)
         THEN PatchErr("invalid")
         ELSE add_stubs_rejects_existing(Tail(items),
                  [group EXCEPT !.members = Some(old \cup {new})])

\* add_stubs comparing the display with the displayName letter by letter
RECURSIVE add_stubs_exact_display(_, _)
add_stubs_exact_display(items, group) ==
    IF items = <<>> THEN PatchOk(group)
    ELSE LET member == Head(items) IN
         IF ~(has_field(member, "value", "string")
                  /\ has_field(member, "display", "string"))
         THEN PatchErr("invalid")
         ELSE IF group.display_name = field(member, "display")
         THEN PatchErr("invalid")
         ELSE add_stubs_exact_display(Tail(items),
                  [group EXCEPT !.members =
                      Some(insert_overwrite(
                               IF @ = None THEN {} ELSE Unwrap(@),
                               GroupMember(Some("User"),
                                           Some(field(member, "value")))))])

\* the member loop of apply_group_add_op
RECURSIVE add_stubs(_, _)
add_stubs(items, group) ==
    IF items = <<>> THEN PatchOk(group)
    ELSE LET member == Head(items) IN
         IF ~(has_field(member, "value", "string")
                  /\ has_field(member, "display", "string"))
         THEN PatchErr("invalid")
         ELSE IF eq_ignore_ascii_case(group.display_name, field(member, "display"))
         THEN PatchErr("invalid")
         ELSE add_stubs(Tail(items),
                  [group EXCEPT !.members =
                      Some(insert_overwrite(
                               IF @ = None THEN {} ELSE Unwrap(@),
                               GroupMember(Some("User"),
                                           Some(field(member, "value")))))])

\* apply_group_add_op
apply_group_add_op(path, value, group) ==
    IF path = None \/ ~chars_eq_ignore_ascii_case(Unwrap(path), MEMBERS)
    THEN PatchErr("invalid")
    ELSE IF value.kind # "array"
    THEN PatchErr("invalid")
    ELSE add_stubs(value.items, group)

\* parse_remove_path: GroupRemoveOp::All, GroupRemoveOp::Indvidual(value)
\* or PatchRequestError::Invalid
parse_remove_path(raw) ==
    LET path == lower_chars(trim(raw)) IN
    IF path = MEMBERS THEN [kind |-> "All", value |-> <<>>]
    ELSE IF ~(starts_with(path, MEMBERS_VALUE_EQ) /\ ends_with(path, <<"]">>)
                  /\ Len(path) >= Len(MEMBERS_VALUE_EQ) + 1)
    THEN [kind |-> "Invalid", value |-> <<>>]
    ELSE LET v == SubSeq(path, Len(MEMBERS_VALUE_EQ) + 1, Len(path) - 1) IN
         IF Len(v) > 2 /\ Head(v) = "\"" /\ v[Len(v)] = "\""
         THEN [kind |-> "Indvidual", value |-> SubSeq(v, 2, Len(v) - 1)]
         ELSE [kind |-> "Invalid", value |-> <<>>]

\* apply_group_remove_op failing when the id is not a member
apply_group_remove_op_rejects_absent(path, group) ==
    LET parsed == parse_remove_path(path)
        old == IF group.members = None THEN {} ELSE Unwrap(group.members)
        hit == {m \in old : /\ m.value # None
                            /\ chars_eq_ignore_ascii_case(
                                   chars_of(Unwrap(m.value)), parsed.value)}
    IN CASE parsed.kind = "Invalid" -> PatchErr("invalid")
         [] parsed.kind = "All" -> PatchOk([group EXCEPT !.members = Some({})])
         [] parsed.kind = "Indvidual" ->
                IF hit = {} THEN PatchErr("invalid")
                ELSE PatchOk([group EXCEPT !.members = Some(old \ hit)])

\* apply_group_remove_op
apply_group_remove_op(path, group) ==
    LET parsed == parse_remove_path(path) IN
    CASE parsed.kind = "Invalid" -> PatchErr("invalid")
      [] parsed.kind = "All" -> PatchOk([group EXCEPT !.members = Some({})])
      [] parsed.kind = "Indvidual" ->
             PatchOk([group EXCEPT !.members =
                 Some({m \in (IF @ = None THEN {} ELSE Unwrap(@)) :
                         \/ m.value = None
                         \/ ~chars_eq_ignore_ascii_case(
                                chars_of(Unwrap(m.value)), parsed.value)})])

\* the match of apply_group_ops on one operation
apply_group_op(patch_op, group) ==
    CASE patch_op.op = "replace" ->
             apply_group_replace_op(patch_op.path, patch_op.value, group)
      [] patch_op.op = "add" ->
             apply_group_add_op(patch_op.path, patch_op.value, group)
      [] patch_op.op = "remove" ->
             apply_group_remove_op(Unwrap(patch_op.path), group)

\* group_ops_from with the operations taken last to first
RECURSIVE group_ops_from_reversed(_, _, _)
group_ops_from_reversed(operations, i, updated_group) ==
    IF i > Len(operations) THEN PatchOk(updated_group)
    ELSE LET r == apply_group_op(operations[Len(operations) + 1 - i],
                                 updated_group) IN
         IF r.status # "ok" THEN r
         ELSE group_ops_from_reversed(operations, i + 1, Unwrap(r.resource))

\* group_ops_from returning the working copy when an operation fails
RECURSIVE group_ops_from_keeps_partial(_, _, _)
group_ops_from_keeps_partial(operations, i, updated_group) ==
    IF i > Len(operations) THEN PatchOk(updated_group)
    ELSE LET r == apply_group_op(operations[i], updated_group) IN
         IF r.status # "ok" THEN PatchOk(updated_group)
         ELSE group_ops_from_keeps_partial(operations, i + 1,
                                           Unwrap(r.resource))

\* the loop of apply_group_ops from operation i on, updated_group being the
\* working copy; an operation that fails ends the call with its error
RECURSIVE group_ops_from(_, _, _)
group_ops_from(operations, i, updated_group) ==
    IF i > Len(operations) THEN PatchOk(updated_group)
    ELSE LET r == apply_group_op(operations[i], updated_group) IN
         IF r.status # "ok" THEN r
         ELSE group_ops_from(operations, i + 1, Unwrap(r.resource))

\* PatchRequest::apply_group_ops
apply_group_ops(request, stored_group) ==
    IF ~validate_schema(request) THEN PatchErr("invalid")
    ELSE group_ops_from(request.operations, 1, stored_group)

\* a loop body that accepts add like replace
apply_user_op_accepts_add(patch_op, user) ==
    IF patch_op.op = "remove" THEN PatchErr("unsupported")
    ELSE IF ~(patch_op.value.kind = "object"
                  /\ has_field(patch_op.value.fields, "active", "bool"))
    THEN PatchErr("unsupported")
    ELSE PatchOk([user EXCEPT !.active =
                     Some(field(patch_op.value.fields, "active") = "true")])

\* the body of the loop of apply_user_ops on one operation
apply_user_op(patch_op, user) ==
    IF patch_op.op # "replace" THEN PatchErr("unsupported")
    ELSE IF ~(patch_op.value.kind = "object"
                  /\ has_field(patch_op.value.fields, "active", "bool"))
    THEN PatchErr("unsupported")
    ELSE PatchOk([user EXCEPT !.active =
                     Some(field(patch_op.value.fields, "active") = "true")])

\* the loop of apply_user_ops
RECURSIVE user_ops_from(_, _, _)
user_ops_from(operations, i, updated_user) ==
    IF i > Len(operations) THEN PatchOk(updated_user)
    ELSE LET r == apply_user_op(operations[i], updated_user) IN
         IF r.status # "ok" THEN r
         ELSE user_ops_from(operations, i + 1, Unwrap(r.resource))

\* PatchRequest::apply_user_ops
apply_user_ops(request, stored_user) ==
    IF ~validate_schema(request) THEN PatchErr("invalid")
    ELSE user_ops_from(request.operations, 1, stored_user)

VARIABLES
    users,      \* InMemoryProviderStoreState.users: id -> User
    groups,     \* InMemoryProviderStoreState.groups: id -> Group
    issued,     \* the ids Uuid::new_v4 has handed out so far
    last,       \* the last request and the status it returned
    patch,      \* per client: the PATCH request it has in flight
    lock,       \* the thread that holds the guard of the store's Mutex
    thread,     \* per thread: the store call it is in and how far it is
    committed,  \* SpecLock: the users and groups when the lock was last free
    meta,       \* SpecMeta: id -> the StoredMeta of the stored user or group
    clock       \* SpecMeta: the last reading of Utc::now()

\* the StoredMeta of the resources and the clock; the specifications other
\* than SpecMeta leave the timestamps out
time == <<meta, clock>>
\* the variables that the specifications of the store calls leave alone
sync == <<lock, thread, committed, time>>
vars == <<users, groups, issued, last, patch, lock, thread, committed, meta, clock>>

\* the threads that can be inside a store call
Threads == {1, 2}
\* a thread outside every store call
Idle ==
    [pc |-> "idle", op |-> "none", id |-> "", status |-> "none",
     request |-> CreateGroupRequest("", None, None),
     todo |-> <<>>, done |-> {}, obs |-> None]

\* the clients that can have a PATCH request in flight
Clients == {1, 2}
\* a client with no PATCH request in flight
NoPatch ==
    [pc |-> "idle", kind |-> "none", id |-> "", status |-> "none",
     request |-> PatchRequest(<<>>, <<>>), base |-> None]

(***************************************************************************)
(* The requests of the model                                               *)
(***************************************************************************)
Actives == {None, Some(TRUE), Some(FALSE)}
ExternalIds == {None, Some("ext")}
\* every user request of the model
UserRequests ==
    {CreateUserRequest(n, a, e) : n \in UserNames, a \in Actives, e \in ExternalIds}
\* the user requests of the specification of the group operations
PlainUserRequests ==
    {CreateUserRequest(n, None, None) : n \in {"jim", "dwight"}}

\* The members a group request of the store specification may list, all
\* untyped: each user id, the first group id, and an id never handed out.
RequestMembers ==
    {GroupMember(None, Some(v)) : v \in UserIds \cup {GroupIdPool[1], UnknownId}}
\* an IdOrdMap holds one member per key
UniqueKeys(ms) == \A m, n \in ms : member_key(m) = member_key(n) => m = n
MemberMaps ==
    {ms \in SUBSET RequestMembers : Cardinality(ms) <= MaxMembers /\ UniqueKeys(ms)}
GroupRequests ==
    {CreateGroupRequest(d, None, ms) :
        d \in DisplayNames, ms \in {None} \cup {Some(m) : m \in MemberMaps}}

Init ==
    /\ users = <<>>
    /\ groups = <<>>
    /\ issued = {}
    /\ last = [op |-> "new", status |-> "ok"]
    /\ patch = [c \in Clients |-> NoPatch]
    /\ lock = None
    /\ thread = [t \in Threads |-> Idle]
    /\ committed = [users |-> users, groups |-> groups]
    /\ meta = <<>>
    /\ clock = 0

Store(r, op) ==
    /\ users' = r.users
    /\ groups' = r.groups
    /\ last' = [op |-> op, status |-> r.status]

\* Uuid::new_v4: an id that was never handed out.  Ids are opaque, so the
\* model hands them out in the order of the pool.
NextId(pool) == CHOOSE i \in 1..Len(pool) :
                    pool[i] \notin issued /\ \A j \in 1..(i - 1) : pool[j] \in issued
NewUserIds == IF UserIds \subseteq issued THEN {} ELSE {UserIdPool[NextId(UserIdPool)]}
NewGroupIds == IF GroupIds \subseteq issued THEN {} ELSE {GroupIdPool[NextId(GroupIdPool)]}
\* The ids a request can name: a client learns an id only from a response,
\* so it names ids that were handed out (stored or not any more).
UserTargets == UserIds \cap issued
GroupTargets == GroupIds \cap issued

CreateUser(requests) ==
    \E id \in NewUserIds, req \in requests :
        LET r == create_user(users, groups, id, req) IN
        /\ Store(r, "create_user")
        /\ issued' = IF r.status = "ok" THEN issued \cup {id} ELSE issued
        /\ UNCHANGED <<patch, sync>>

ReplaceUser(requests) ==
    \E id \in UserTargets, req \in requests :
        /\ Store(replace_user(users, groups, id, req), "replace_user")
        /\ UNCHANGED <<issued, patch, sync>>

DeleteUser ==
    \E id \in UserTargets :
        /\ Store(delete_user_by_id(users, groups, id), "delete_user_by_id")
        /\ UNCHANGED <<issued, patch, sync>>

CreateGroup ==
    \E id \in NewGroupIds, req \in GroupRequests :
        LET r == create_group(users, groups, id, req) IN
        /\ Store(r, "create_group")
        /\ issued' = IF r.status = "conflict" THEN issued ELSE issued \cup {id}
        /\ UNCHANGED <<patch, sync>>

ReplaceGroup ==
    \E id \in GroupTargets, req \in GroupRequests :
        /\ Store(replace_group(users, groups, id, req), "replace_group")
        /\ UNCHANGED <<issued, patch, sync>>

DeleteGroup ==
    \E id \in GroupTargets :
        /\ Store(delete_group_by_id(users, groups, id), "delete_group_by_id")
        /\ UNCHANGED <<issued, patch, sync>>

Next ==
    \/ CreateUser(PlainUserRequests)
    \/ ReplaceUser(PlainUserRequests)
    \/ DeleteUser
    \/ CreateGroup
    \/ ReplaceGroup
    \/ DeleteGroup

Spec == Init /\ [][Next]_vars

(***************************************************************************)
(* Claims about the store operations, under Spec                           *)
(***************************************************************************)
requested_ids(group_request) ==
    IF group_request.members = None THEN {}
    ELSE {Unwrap(m.value) : m \in Unwrap(group_request.members)}
entries_for_others(user, group_id) ==
    {e \in entries_of(user) : e.value # Some(group_id)}

\* C1: in every reachable state, a stored group lists a stored user as a
\* member exactly if that user's groups holds an entry for the group, and
\* every entry of a user's groups names a stored group.
C1_BidirectionalConsistency ==
    /\ \A g \in DOMAIN groups, u \in DOMAIN users :
           u \in member_ids(groups[g]) <=> g \in user_group_ids(users[u])
    /\ \A u \in DOMAIN users : user_group_ids(users[u]) \subseteq DOMAIN groups

C5_DeleteGroupStrips ==
    \A g \in GroupTargets :
        LET r == delete_group_by_id(users, groups, g) IN
        r.status = "deleted" =>
            /\ g \notin DOMAIN r.groups
            /\ DOMAIN r.users = DOMAIN users
            /\ \A u \in DOMAIN users :
                   /\ g \notin user_group_ids(r.users[u])
                   /\ entries_for_others(r.users[u], g)
                          = entries_for_others(users[u], g)

\* a group was deleted while a user still holds an entry for another group
C5_Witness ==
    /\ last = [op |-> "delete_group_by_id", status |-> "deleted"]
    /\ \E g \in GroupTargets \ DOMAIN groups, u \in DOMAIN users :
           /\ g \notin user_group_ids(users[u])
           /\ user_group_ids(users[u]) \cap DOMAIN groups # {}

\* C6, as claimed: after delete_user_by_id returns Deleted no stored group
\* lists the user as a member.
C6_DeleteUserCascades ==
    \A u \in UserTargets :
        LET r == delete_user_by_id(users, groups, u) IN
        r.status = "deleted" =>
            \A g \in DOMAIN r.groups : u \notin member_ids(r.groups[g])

\* C6, amended: a delete_user_by_id that returns Deleted removes the user
\* and nothing else: every group, its member list included, and every other
\* user is as before, so a group that listed the user still lists it.
C6_DeleteUserLeavesGroups ==
    \A u \in UserTargets :
        LET r == delete_user_by_id(users, groups, u) IN
        r.status = "deleted" =>
            /\ u \notin DOMAIN r.users
            /\ r.groups = groups
            /\ \A v \in DOMAIN users \ {u} :
                   v \in DOMAIN r.users /\ r.users[v] = users[v]

\* a user was deleted and a stored group still lists it
C6_Witness ==
    /\ last = [op |-> "delete_user_by_id", status |-> "deleted"]
    /\ \E g \in DOMAIN groups :
           member_ids(groups[g]) \ DOMAIN users # {}

(***************************************************************************)
(* The user operations alone, with every user request of the model          *)
(***************************************************************************)
NextUsers ==
    \/ CreateUser(UserRequests)
    \/ ReplaceUser(UserRequests)
    \/ DeleteUser

SpecUsers == Init /\ [][NextUsers]_vars

\* C9: no reachable state holds two users whose userNames are equal
\* ignoring case (a create_user with such a name fails with Conflict).
C9_UserNamesUniqueIgnoringCase ==
    \A u, v \in DOMAIN users :
        u # v => ~eq_ignore_ascii_case(users[u].name, users[v].name)

\* C10: replace_user fails with Conflict and changes nothing whenever a
\* different stored user holds the request's userName, and succeeds when the
\* request keeps the stored target's own userName.
C10_ReplaceUserConflict ==
    \A id \in UserTargets, req \in UserRequests :
        LET r == replace_user(users, groups, id, req) IN
        /\ (\E v \in DOMAIN users : v # id /\ users[v].name = req.name)
               => r = Result(users, groups, "conflict")
        /\ (id \in DOMAIN users /\ users[id].name = req.name)
               => /\ r.status = "ok"
                  /\ r.users[id].name = req.name

\* a replace_user was refused with Conflict while two users are stored
C10_Witness ==
    /\ last = [op |-> "replace_user", status |-> "conflict"]
    /\ Cardinality(DOMAIN users) = 2

(***************************************************************************)
(* Provider: the PATCH round trip.  The Provider fetches the stored        *)
(* resource (Not Found if absent), runs the PATCH engine on a copy, turns  *)
(* the result back into a replace request that re-asserts every field and  *)
(* calls the store's replace operation.  The fetch and the replace are two *)
(* store calls, each under the store's lock; other requests can run        *)
(* between them.                                                           *)
(***************************************************************************)
\* what follows the fetch of a PATCH of a group: stored_group is what the
\* fetch returned
patch_group(us, gs, group_id, request, stored_group) ==
    LET r == apply_group_ops(request, stored_group) IN
    IF r.status # "ok" THEN Result(us, gs, r.status)
    ELSE replace_group(us, gs, group_id,
             LET updated == Unwrap(r.resource) IN
             CreateGroupRequest(updated.display_name, updated.external_id,
                                updated.members))

\* what follows the fetch of a PATCH of a user
patch_user(us, gs, user_id, request, stored_user) ==
    LET r == apply_user_ops(request, stored_user) IN
    IF r.status # "ok" THEN Result(us, gs, r.status)
    ELSE replace_user(us, gs, user_id,
             LET updated == Unwrap(r.resource) IN
             CreateUserRequest(updated.name, updated.active, updated.external_id))

\* The requests of the PATCH specifications
MaxOps == 2
Ops(S) == UNION {[1..n -> S] : n \in 0..MaxOps}
Stub(value, display) ==
    {JField("value", "string", value), JField("display", "string", display)}
ValueStub(value) == {JField("value", "string", value)}
REMOVE_U1 == MEMBERS_VALUE_EQ \o <<"\"", "u", "1", "\"", "]">>
AddMember(value, display) == Add(Some(MEMBERS), JArray(<<Stub(value, display)>>))
ActiveValue(b) == JObject({JField("active", "bool", b)})
\* operations on a group that the engine applies ...
GoodGroupOps ==
    {AddMember("u2", "dwight"), Remove(MEMBERS), Remove(REMOVE_U1),
     Replace(None, JObject({JField("id", "string", "g1"),
                            JField("displayName", "string", "hr")}))}
\* ... and operations that fail: an add without path is Invalid, a replace
\* without path whose value has another shape is Unsupported
BadGroupOps ==
    {Add(None, JArray(<<Stub("u2", "dwight")>>)),
     Replace(None, ActiveValue("true"))}
GroupPatchOps == GoodGroupOps \cup BadGroupOps
UserPatchOps ==
    {Replace(None, ActiveValue("true")), Add(None, ActiveValue("true"))}
BadSchemas == {<<PATCHOP_URN, "urn:ietf:params:scim:schemas:core:2.0:Group">>}
GroupPatchRequests ==
    {PatchRequest(<<PATCHOP_URN>>, ops) : ops \in Ops(GroupPatchOps)}
        \cup {PatchRequest(sch, <<Remove(MEMBERS)>>) : sch \in BadSchemas}
UserPatchRequests ==
    {PatchRequest(<<PATCHOP_URN>>, ops) : ops \in Ops(UserPatchOps)}
        \cup {PatchRequest(sch, <<Replace(None, ActiveValue("true"))>>) :
                 sch \in BadSchemas}

\* The store the PATCH specifications start from, built by store calls:
\* users u1 (jim) and u2 (dwight), group g1 (sales) with member u1, and a
\* group g2 that was created and deleted again.
PatchStore ==
    LET a == create_user(<<>>, <<>>, "u1", CreateUserRequest("jim", None, None))
        b == create_user(a.users, a.groups, "u2",
                         CreateUserRequest("dwight", Some(TRUE), Some("ext")))
        c == create_group(b.users, b.groups, "g1",
                 CreateGroupRequest("sales", None,
                     Some({GroupMember(None, Some("u1"))})))
        d == create_group(c.users, c.groups, "g2",
                 CreateGroupRequest("mgmt", None, None))
    IN delete_group_by_id(d.users, d.groups, "g2")

InitPatch ==
    /\ users = PatchStore.users
    /\ groups = PatchStore.groups
    /\ issued = {"u1", "u2", "g1", "g2"}
    /\ last = [op |-> "delete_group_by_id", status |-> PatchStore.status]
    /\ patch = [c \in Clients |-> NoPatch]
    /\ lock = None
    /\ thread = [t \in Threads |-> Idle]
    /\ committed = [users |-> users, groups |-> groups]
    /\ meta = <<>>
    /\ clock = 0

\* a client sends a PATCH of a group: the Provider fetches the group
PatchGroupLoad(c, requests) ==
    /\ patch[c].pc # "loaded"
    /\ \E id \in GroupTargets, request \in requests :
           LET stored == get_group_by_id(groups, id)
               found == stored # None
           IN /\ patch' = [patch EXCEPT ![c] =
                     [pc |-> IF found THEN "loaded" ELSE "done",
                      kind |-> "group", id |-> id,
                      status |-> IF found THEN "pending" ELSE "not_found",
                      request |-> request, base |-> stored]]
              /\ last' = [op |-> "get_group_by_id",
                          status |-> IF found THEN "ok" ELSE "not_found"]
    /\ UNCHANGED <<users, groups, issued, sync>>

\* the Provider runs the engine on the copy it fetched and commits
PatchGroupCommit(c) ==
    /\ patch[c].pc = "loaded"
    /\ patch[c].kind = "group"
    /\ LET r == patch_group(users, groups, patch[c].id, patch[c].request,
                            Unwrap(patch[c].base))
       IN /\ Store(r, "patch_group")
          /\ patch' = [patch EXCEPT ![c].pc = "done", ![c].status = r.status]
    /\ UNCHANGED <<issued, sync>>

PatchUserLoad(c, requests) ==
    /\ patch[c].pc # "loaded"
    /\ \E id \in UserTargets, request \in requests :
           LET stored == get_user_by_id(users, id)
               found == stored # None
           IN /\ patch' = [patch EXCEPT ![c] =
                     [pc |-> IF found THEN "loaded" ELSE "done",
                      kind |-> "user", id |-> id,
                      status |-> IF found THEN "pending" ELSE "not_found",
                      request |-> request, base |-> stored]]
              /\ last' = [op |-> "get_user_by_id",
                          status |-> IF found THEN "ok" ELSE "not_found"]
    /\ UNCHANGED <<users, groups, issued, sync>>

PatchUserCommit(c) ==
    /\ patch[c].pc = "loaded"
    /\ patch[c].kind = "user"
    /\ LET r == patch_user(users, groups, patch[c].id, patch[c].request,
                           Unwrap(patch[c].base))
       IN /\ Store(r, "patch_user")
          /\ patch' = [patch EXCEPT ![c].pc = "done", ![c].status = r.status]
    /\ UNCHANGED <<issued, sync>>

\* one client sending PATCH requests one after the other
NextPatch ==
    \/ PatchGroupLoad(1, GroupPatchRequests)
    \/ PatchGroupCommit(1)
    \/ PatchUserLoad(1, UserPatchRequests)
    \/ PatchUserCommit(1)

SpecPatch == InitPatch /\ [][NextPatch]_vars

(***************************************************************************)
(* Claims about PATCH, under SpecPatch                                     *)
(***************************************************************************)
\* the left-to-right fold of a single-operation transition step over a
\* resource: the operations before the last one, then the last one
RECURSIVE fold_group_ops(_, _)
fold_group_ops(operations, group) ==
    IF operations = <<>> THEN PatchOk(group)
    ELSE LET before == fold_group_ops(SubSeq(operations, 1, Len(operations) - 1),
                                      group)
         IN IF before.status # "ok" THEN before
            ELSE apply_group_op(operations[Len(operations)],
                                Unwrap(before.resource))
RECURSIVE fold_user_ops(_, _)
fold_user_ops(operations, user) ==
    IF operations = <<>> THEN PatchOk(user)
    ELSE LET before == fold_user_ops(SubSeq(operations, 1, Len(operations) - 1),
                                     user)
         IN IF before.status # "ok" THEN before
            ELSE apply_user_op(operations[Len(operations)],
                               Unwrap(before.resource))
PatchErrors == {"invalid", "unsupported"}
members_or_empty(group) == IF group.members = None THEN {} ELSE Unwrap(group.members)

\* C2: when some operation of a PATCH request fails on the working copy
\* (the operations before it having applied), the PATCH returns the error
\* and the users and groups of the store are what they were before it.
C2_FailedPatchPersistsNothing ==
    \A c \in Clients :
        patch[c].pc = "loaded" =>
            LET p == patch[c]
                stored == Unwrap(p.base)
                folded == IF p.kind = "group"
                          THEN fold_group_ops(p.request.operations, stored)
                          ELSE fold_user_ops(p.request.operations, stored)
                r == IF p.kind = "group"
                     THEN patch_group(users, groups, p.id, p.request, stored)
                     ELSE patch_user(users, groups, p.id, p.request, stored)
            IN folded.status \in PatchErrors =>
                   /\ r.status \in PatchErrors
                   /\ r.users = users
                   /\ r.groups = groups

\* a PATCH of a group failed on its second operation after its first had
\* added a member the stored group does not have, and the member is not
\* stored
C2_Witness ==
    /\ last.op = "patch_group"
    /\ last.status \in PatchErrors
    /\ \E c \in Clients :
           LET p == patch[c] IN
           /\ p.pc = "done"
           /\ p.status \in PatchErrors
           /\ Len(p.request.operations) = 2
           /\ p.request.operations[1] = AddMember("u2", "dwight")
           /\ "u2" \notin member_ids(Unwrap(p.base))
           /\ p.id \in DOMAIN groups
           /\ "u2" \notin member_ids(groups[p.id])

\* C3: apply_group_ops gives the left-to-right fold of the single-operation
\* transitions over the stored group; so [add M, remove members] ends with
\* no members and [remove members, add M] with M as the only member.
C3_OpsInArrayOrder ==
    /\ \A c \in Clients :
           (/\ patch[c].pc = "loaded"
            /\ patch[c].kind = "group"
            /\ validate_schema(patch[c].request)) =>
               apply_group_ops(patch[c].request, Unwrap(patch[c].base))
                   = fold_group_ops(patch[c].request.operations,
                                    Unwrap(patch[c].base))
    /\ \A g \in DOMAIN groups :
           LET add_then_remove ==
                   apply_group_ops(PatchRequest(<<PATCHOP_URN>>,
                       <<AddMember("u2", "dwight"), Remove(MEMBERS)>>), groups[g])
               remove_then_add ==
                   apply_group_ops(PatchRequest(<<PATCHOP_URN>>,
                       <<Remove(MEMBERS), AddMember("u2", "dwight")>>), groups[g])
           IN /\ add_then_remove.status = "ok"
              /\ members_or_empty(Unwrap(add_then_remove.resource)) = {}
              /\ remove_then_add.status = "ok"
              /\ members_or_empty(Unwrap(remove_then_add.resource))
                     = {GroupMember(Some("User"), Some("u2"))}

\* the PATCH [remove members, add u2] of a group whose only member was u1
\* has been committed: the group's only member is u2
C3_Witness ==
    /\ last = [op |-> "patch_group", status |-> "ok"]
    /\ \E c \in Clients :
           LET p == patch[c] IN
           /\ p.pc = "done"
           /\ p.request.operations = <<Remove(MEMBERS), AddMember("u2", "dwight")>>
           /\ member_ids(Unwrap(p.base)) = {"u1"}
           /\ member_ids(groups[p.id]) = {"u2"}

(***************************************************************************)
(* Concurrent PATCH requests: two clients, each PATCH being a fetch and a  *)
(* commit with the other client's calls possibly in between.               *)
(***************************************************************************)
RacePatchRequests ==
    {PatchRequest(<<PATCHOP_URN>>, <<op>>) :
        op \in {AddMember("u2", "dwight"), Remove(REMOVE_U1),
                Replace(None, JObject({JField("id", "string", "g1"),
                                       JField("displayName", "string", "hr")}))}}

NextRace ==
    \E c \in Clients :
        \/ PatchGroupLoad(c, RacePatchRequests)
        \/ PatchGroupCommit(c)

SpecRace == InitPatch /\ [][NextRace]_vars

\* C7: the commit of a PATCH checks no version of what it read: whenever it
\* succeeds, the stored group gets the displayName and exactly the members
\* of the patched copy of the base the PATCH read, whatever the stored
\* group has become since.  So of two PATCHes that read the same base, the
\* one that commits last overwrites the other's change.
C7_CommitOverwritesFromBase ==
    \A c \in Clients :
        (patch[c].pc = "loaded" /\ patch[c].kind = "group") =>
            LET p == patch[c]
                r == patch_group(users, groups, p.id, p.request, Unwrap(p.base))
                patched == apply_group_ops(p.request, Unwrap(p.base))
            IN r.status = "ok" =>
                   /\ r.groups[p.id].display_name
                          = Unwrap(patched.resource).display_name
                   /\ member_ids(r.groups[p.id])
                          = member_ids(Unwrap(patched.resource))

\* both PATCHes read the same base and both returned Ok; one added u2, the
\* other renamed the group and committed last: the stored group carries
\* the new name and u2 is not a member
C7_Witness ==
    /\ last = [op |-> "patch_group", status |-> "ok"]
    /\ \E c, d \in Clients :
           /\ c # d
           /\ patch[c].pc = "done" /\ patch[c].status = "ok"
           /\ patch[d].pc = "done" /\ patch[d].status = "ok"
           /\ patch[c].id = patch[d].id
           /\ patch[c].base = patch[d].base
           /\ patch[c].request.operations = <<AddMember("u2", "dwight")>>
           /\ patch[d].request.operations[1].op = "replace"
           /\ "u2" \notin member_ids(Unwrap(patch[c].base))
           /\ groups[patch[c].id].display_name = "hr"
           /\ "u2" \notin member_ids(groups[patch[c].id])

(***************************************************************************)
(* The store's Mutex.  Every store method starts with state.lock() and     *)
(* holds the guard until it returns.  Here a store call is a sequence of   *)
(* steps (the conflict check, the loop that strips the users' entries,     *)
(* one step per member, the write of the group), and the calls of two      *)
(* threads interleave step by step.                                        *)
(***************************************************************************)
\* Mutex::lock with every thread let in
mutex_lock_unguarded(l) == TRUE

\* Mutex::lock returns when no thread holds the guard
mutex_lock(l) == l = None

ReadOps == {"get_user_by_id", "get_group_by_id", "list_users", "list_groups"}
GroupWriteOps == {"create_group", "replace_group"}
Holding == {"locked", "strip", "members", "removed", "unlock"}

Call(op, id, request) == [op |-> op, id |-> id, request |-> request]
NoRequest == CreateGroupRequest("", None, None)
LockGroupRequests ==
    {CreateGroupRequest("sales", None, Some({GroupMember(None, Some("u2"))})),
     CreateGroupRequest("mgmt", None,
         Some({GroupMember(None, Some("u1")), GroupMember(None, Some(UnknownId))})),
     CreateGroupRequest("sales", None, None)}
\* a create_group draws its id when it runs; the model allows one
\* create_group at a time, and none when the pool of ids is used up
Calls ==
    {Call("get_user_by_id", u, NoRequest) : u \in UserTargets}
        \cup {Call("get_group_by_id", g, NoRequest) : g \in GroupTargets}
        \cup {Call("list_users", "", NoRequest), Call("list_groups", "", NoRequest)}
        \cup {Call("replace_group", g, r) : g \in GroupTargets, r \in LockGroupRequests}
        \cup {Call("delete_group_by_id", g, NoRequest) : g \in GroupTargets}
        \cup {Call("create_group", "", r) :
                 r \in {q \in LockGroupRequests :
                           /\ NewGroupIds # {}
                           /\ \A t \in Threads : thread[t].op # "create_group"}}

\* users u1 (jim) and u2 (dwight) and group g1 (sales) with member u1
LockStore ==
    LET a == create_user(<<>>, <<>>, "u1", CreateUserRequest("jim", None, None))
        b == create_user(a.users, a.groups, "u2",
                         CreateUserRequest("dwight", None, None))
    IN create_group(b.users, b.groups, "g1",
           CreateGroupRequest("sales", None,
               Some({GroupMember(None, Some("u1"))})))

InitLock ==
    /\ users = LockStore.users
    /\ groups = LockStore.groups
    /\ issued = {"u1", "u2", "g1"}
    /\ last = [op |-> "create_group", status |-> LockStore.status]
    /\ patch = [c \in Clients |-> NoPatch]
    /\ lock = None
    /\ thread = [t \in Threads |-> Idle]
    /\ committed = [users |-> users, groups |-> groups]
    /\ meta = <<>>
    /\ clock = 0

\* t's step: its record becomes next, the rest of the state as given
Step(t, next) == thread' = [thread EXCEPT ![t] = next]
Returning(me, status) == [me EXCEPT !.pc = "unlock", !.status = status]

\* a request arrives and its handler calls the store
CallStore(t) ==
    /\ thread[t].pc = "idle"
    /\ \E call \in Calls :
           Step(t, [Idle EXCEPT !.pc = "lock", !.op = call.op, !.id = call.id,
                                !.request = call.request])
    /\ UNCHANGED <<users, groups, issued, last, patch, time, lock, committed>>

\* let state = self.state.lock().unwrap()
Lock(t) ==
    /\ thread[t].pc = "lock"
    /\ mutex_lock(lock)
    /\ lock' = Some(t)
    /\ Step(t, [thread[t] EXCEPT !.pc = "locked"])
    /\ UNCHANGED <<users, groups, issued, last, patch, time, committed>>

\* the body of get_user_by_id, get_group_by_id, list_users, list_groups
\* (unfiltered): what the call returns
Read(t) ==
    LET me == thread[t] IN
    /\ me.pc = "locked"
    /\ me.op \in ReadOps
    /\ Step(t, [Returning(me, "ok") EXCEPT !.obs =
           CASE me.op = "get_user_by_id" -> get_user_by_id(users, me.id)
             [] me.op = "get_group_by_id" -> get_group_by_id(groups, me.id)
             [] me.op = "list_users" -> Some(users)
             [] me.op = "list_groups" -> Some(groups)])
    /\ UNCHANGED <<users, groups, issued, last, patch, time, lock, committed>>

\* create_group / replace_group: the displayName check; create_group then
\* draws the id of the new group
GroupCheck(t) ==
    LET me == thread[t]
        conflict == \E g \in DOMAIN groups :
                        /\ groups[g].display_name = me.request.display_name
                        /\ (me.op = "replace_group" => groups[g].id # me.id)
        todo == IF me.request.members = None THEN <<>>
                ELSE members_in_order(Unwrap(me.request.members))
    IN
    /\ me.pc = "locked"
    /\ me.op \in GroupWriteOps
    /\ IF conflict
       THEN Step(t, Returning(me, "conflict")) /\ UNCHANGED issued
       ELSE IF me.op = "replace_group"
       THEN Step(t, [me EXCEPT !.pc = "strip", !.todo = todo]) /\ UNCHANGED issued
       ELSE \E id \in NewGroupIds :
                /\ Step(t, [me EXCEPT !.pc = "members", !.id = id, !.todo = todo])
                /\ issued' = issued \cup {id}
    /\ UNCHANGED <<users, groups, last, patch, time, lock, committed>>

\* replace_group: "Delete all existing group membership for this group id"
Strip(t) ==
    /\ thread[t].pc = "strip"
    /\ users' = strip_group(users, thread[t].id)
    /\ Step(t, [thread[t] EXCEPT !.pc = "members"])
    /\ UNCHANGED <<groups, issued, last, patch, time, lock, committed>>

\* one turn of the member loop: resolve the member and push the entry for
\* the group onto the user's groups
Member(t) ==
    LET me == thread[t]
        r == add_members(users, groups, <<Head(me.todo)>>, me.done, me.id,
                         me.request.display_name)
    IN
    /\ me.pc = "members"
    /\ me.todo # <<>>
    /\ users' = r.users
    /\ IF r.status # "ok"
       THEN Step(t, Returning(me, r.status))
       ELSE Step(t, [me EXCEPT !.todo = Tail(me.todo), !.done = r.members])
    /\ UNCHANGED <<groups, issued, last, patch, time, lock, committed>>

\* after the member loop: create_group inserts the group, replace_group
\* overwrites it if it is stored
Write(t) ==
    LET me == thread[t]
        group == [id |-> me.id,
                  display_name |-> me.request.display_name,
                  external_id |-> me.request.external_id,
                  members |-> IF me.request.members = None THEN None
                              ELSE Some(me.done)]
    IN
    /\ me.pc = "members"
    /\ me.todo = <<>>
    /\ IF me.op = "create_group"
       THEN groups' = groups @@ (me.id :> group) /\ Step(t, Returning(me, "ok"))
       ELSE IF me.id \notin DOMAIN groups
       THEN UNCHANGED groups /\ Step(t, Returning(me, "not_found"))
       ELSE groups' = [groups EXCEPT ![me.id] = group]
                /\ Step(t, Returning(me, "ok"))
    /\ UNCHANGED <<users, issued, last, patch, time, lock, committed>>

\* delete_group_by_id: state.groups.remove(group_id)
RemoveGroup(t) ==
    LET me == thread[t] IN
    /\ me.pc = "locked"
    /\ me.op = "delete_group_by_id"
    /\ IF me.id \in DOMAIN groups
       THEN groups' = [g \in DOMAIN groups \ {me.id} |-> groups[g]]
                /\ Step(t, [me EXCEPT !.pc = "removed"])
       ELSE UNCHANGED groups /\ Step(t, Returning(me, "not_found"))
    /\ UNCHANGED <<users, issued, last, patch, time, lock, committed>>

\* delete_group_by_id: the loop that strips the users' entries
StripRemoved(t) ==
    /\ thread[t].pc = "removed"
    /\ users' = strip_group(users, thread[t].id)
    /\ Step(t, Returning(thread[t], "deleted"))
    /\ UNCHANGED <<groups, issued, last, patch, time, lock, committed>>

\* the call returns and the guard is dropped
Unlock(t) ==
    /\ thread[t].pc = "unlock"
    /\ lock' = None
    /\ committed' = [users |-> users, groups |-> groups]
    /\ last' = [op |-> thread[t].op, status |-> thread[t].status]
    /\ Step(t, Idle)
    /\ UNCHANGED <<users, groups, issued, patch, time>>

NextLock ==
    \E t \in Threads :
        \/ CallStore(t)
        \/ Lock(t)
        \/ Read(t)
        \/ GroupCheck(t)
        \/ Strip(t)
        \/ Member(t)
        \/ Write(t)
        \/ RemoveGroup(t)
        \/ StripRemoved(t)
        \/ Unlock(t)

SpecLock == InitLock /\ [][NextLock]_vars

\* a group lists a stored user who holds no entry for it, or a user holds
\* an entry for a group that is not stored or does not list the user
diverged(us, gs) ==
    \/ \E g \in DOMAIN gs, u \in DOMAIN us :
           ~(u \in member_ids(gs[g]) <=> g \in user_group_ids(us[u]))
    \/ \E u \in DOMAIN us : ~(user_group_ids(us[u]) \subseteq DOMAIN gs)

\* C8: a thread inside a store call holds the lock, so at most one thread is
\* inside one; what a get or list call returns is taken from the state the
\* last finished call left, never from a state another call is midway
\* through; and what a create_group, replace_group or delete_group_by_id
\* has done when it returns is the whole operation applied to that state.
C8_StoreCallsAreAtomic ==
    \A t \in Threads :
        LET me == thread[t]
            cu == committed.users
            cg == committed.groups
        IN
        /\ me.pc \in Holding => lock = Some(t)
        /\ me.pc = "unlock" =>
               CASE me.op = "get_user_by_id" -> me.obs = get_user_by_id(cu, me.id)
                 [] me.op = "get_group_by_id" -> me.obs = get_group_by_id(cg, me.id)
                 [] me.op = "list_users" -> me.obs = Some(cu)
                 [] me.op = "list_groups" -> me.obs = Some(cg)
                 [] me.op = "create_group" ->
                        Result(users, groups, me.status)
                            = create_group(cu, cg, me.id, me.request)
                 [] me.op = "replace_group" ->
                        Result(users, groups, me.status)
                            = replace_group(cu, cg, me.id, me.request)
                 [] me.op = "delete_group_by_id" ->
                        Result(users, groups, me.status)
                            = delete_group_by_id(cu, cg, me.id)

\* a replace_group is midway (entries stripped, members not yet pushed): the
\* state it started from agreed, the state now does not, and another
\* thread's get or list call waits for the lock
C8_Witness ==
    \E t, r \in Threads :
        /\ thread[t].op = "replace_group"
        /\ thread[t].pc = "members"
        /\ ~diverged(committed.users, committed.groups)
        /\ diverged(users, groups)
        /\ thread[r].pc = "lock"
        /\ thread[r].op \in ReadOps

(***************************************************************************)
(* The group operations with displayNames that differ in letter case only  *)
(***************************************************************************)
CaseDisplayNames == {"sales", "Sales", "mgmt"}
\* group requests without members
NamedGroupRequests ==
    {CreateGroupRequest(d, e, None) : d \in CaseDisplayNames, e \in ExternalIds}

CreateGroupWith(requests) ==
    \E id \in NewGroupIds, req \in requests :
        LET r == create_group(users, groups, id, req) IN
        /\ Store(r, "create_group")
        /\ issued' = IF r.status = "conflict" THEN issued ELSE issued \cup {id}
        /\ UNCHANGED <<patch, sync>>

ReplaceGroupWith(requests) ==
    \E id \in GroupTargets, req \in requests :
        /\ Store(replace_group(users, groups, id, req), "replace_group")
        /\ UNCHANGED <<issued, patch, sync>>

NextGroups ==
    \/ CreateGroupWith(NamedGroupRequests)
    \/ ReplaceGroupWith(NamedGroupRequests)
    \/ DeleteGroup

SpecGroups == Init /\ [][NextGroups]_vars

\* C11, as claimed: no two stored groups have displayNames that are equal
\* ignoring case, create_group and replace_group failing with Conflict on
\* such a name.
C11_DisplayNamesUniqueIgnoringCase ==
    \A g, h \in DOMAIN groups :
        g # h => ~eq_ignore_ascii_case(groups[g].display_name,
                                       groups[h].display_name)

\* C12, as claimed: a get, replace or delete of a user id or group id that
\* is not stored returns Not Found, whatever the request is.
C12_MissingIdIsNotFound ==
    /\ \A id \in (UserIds \cup {UnknownId}) \ DOMAIN users :
           /\ get_user_by_id(users, id) = None
           /\ delete_user_by_id(users, groups, id).status = "not_found"
           /\ \A req \in PlainUserRequests :
                  replace_user(users, groups, id, req).status = "not_found"
    /\ \A id \in (GroupIds \cup {UnknownId}) \ DOMAIN groups :
           /\ get_group_by_id(groups, id) = None
           /\ delete_group_by_id(users, groups, id).status = "not_found"
           /\ \A req \in GroupRequests :
                  replace_group(users, groups, id, req).status = "not_found"

(***************************************************************************)
(* PATCH requests that add members, one client                             *)
(***************************************************************************)
\* one add operation listing the same member twice
AddTwice(value, display) ==
    Add(Some(MEMBERS), JArray(<<Stub(value, display), Stub(value, display)>>))
AddPatchOps ==
    {AddMember("u1", "jim"), AddMember("u2", "dwight"), AddTwice("u2", "dwight"),
     Remove(MEMBERS)}
AddPatchRequests ==
    {PatchRequest(<<PATCHOP_URN>>, ops) : ops \in Ops(AddPatchOps)}

NextAdd ==
    \/ PatchGroupLoad(1, AddPatchRequests)
    \/ PatchGroupCommit(1)

SpecAdd == InitPatch /\ [][NextAdd]_vars

request_of(ops) == PatchRequest(<<PATCHOP_URN>>, ops)
\* the number of entries a user's groups holds for a group
count_entries(user, group_id) ==
    IF user.groups = None THEN 0
    ELSE Cardinality({i \in 1..Len(Unwrap(user.groups)) :
                         Unwrap(user.groups)[i].value = Some(group_id)})
count_members(group, id) ==
    Cardinality({m \in members_or_empty(group) : m.value = Some(id)})
AddedMembers == {<<"u1", "jim">>, <<"u2", "dwight">>}

\* C13: adding a member twice in one add operation, in two operations of
\* one request, or in a second PATCH after a first one that added it, gives
\* the group that adding it once gives, with one member entry for the id
\* (and, once committed, one entry for the group in the user's groups).
C13_AddIsIdempotent ==
    \A g \in DOMAIN groups, m \in AddedMembers :
        LET once == apply_group_ops(request_of(<<AddMember(m[1], m[2])>>),
                                    groups[g])
            in_one_op == apply_group_ops(request_of(<<AddTwice(m[1], m[2])>>),
                                         groups[g])
            in_two_ops == apply_group_ops(
                              request_of(<<AddMember(m[1], m[2]),
                                           AddMember(m[1], m[2])>>), groups[g])
            first == patch_group(users, groups, g,
                                 request_of(<<AddMember(m[1], m[2])>>), groups[g])
            second == patch_group(first.users, first.groups, g,
                                  request_of(<<AddMember(m[1], m[2])>>),
                                  first.groups[g])
        IN /\ once.status = "ok"
           /\ count_members(Unwrap(once.resource), m[1]) = 1
           /\ in_one_op = once
           /\ in_two_ops = once
           /\ first.status = "ok" =>
                  /\ second.status = "ok"
                  /\ second.groups = first.groups
                  /\ count_members(second.groups[g], m[1]) = 1
                  /\ count_entries(second.users[m[1]], g) = 1
                  /\ second.users = first.users

\* a second PATCH that adds u2 has been committed on a group that had u2
\* as a member already: one member entry, one entry in u2's groups
C13_Witness ==
    /\ last = [op |-> "patch_group", status |-> "ok"]
    /\ LET p == patch[1] IN
       /\ p.pc = "done"
       /\ p.request.operations = <<AddMember("u2", "dwight")>>
       /\ "u2" \in member_ids(Unwrap(p.base))
       /\ count_members(groups[p.id], "u2") = 1
       /\ count_entries(users["u2"], p.id) = 1

(***************************************************************************)
(* PATCH requests that remove single members, one client                   *)
(***************************************************************************)
\* the path members[value eq "<id>"]
remove_path(id) == MEMBERS_VALUE_EQ \o <<"\"">> \o chars_of(id) \o <<"\"", "]">>
RemovedIds == {"u1", "u2", UnknownId}
RemovePatchOps ==
    {Remove(remove_path(id)) : id \in RemovedIds}
        \cup {AddMember("u2", "dwight"), Replace(Some(MEMBERS), JArray(<<>>))}
RemovePatchRequests ==
    {PatchRequest(<<PATCHOP_URN>>, ops) : ops \in Ops(RemovePatchOps)}

NextRemove ==
    \/ PatchGroupLoad(1, RemovePatchRequests)
    \/ PatchGroupCommit(1)

SpecRemove == InitPatch /\ [][NextRemove]_vars

MemberTypes == {None, Some("User"), Some("Group")}
TypedMembers ==
    {GroupMember(t, Some(v)) : t \in MemberTypes, v \in {"u1", "g1", UnknownId}}
        \cup {GroupMember(None, Some("u2"))}
TypedMemberMaps ==
    {ms \in SUBSET TypedMembers : Cardinality(ms) <= MaxMembers /\ UniqueKeys(ms)}
TypedGroupRequests ==
    {CreateGroupRequest(d, None, ms) :
        d \in {"sales"}, ms \in {None} \cup {Some(m) : m \in TypedMemberMaps}}

\* users u1 (jim) and u2 (dwight), no group
MembersStore ==
    LET a == create_user(<<>>, <<>>, "u1", CreateUserRequest("jim", None, None))
    IN create_user(a.users, a.groups, "u2",
                   CreateUserRequest("dwight", None, None))

InitMembers ==
    /\ users = MembersStore.users
    /\ groups = MembersStore.groups
    /\ issued = {"u1", "u2"}
    /\ last = [op |-> "create_user", status |-> MembersStore.status]
    /\ patch = [c \in Clients |-> NoPatch]
    /\ lock = None
    /\ thread = [t \in Threads |-> Idle]
    /\ committed = [users |-> users, groups |-> groups]
    /\ meta = <<>>
    /\ clock = 0

NextMembers ==
    \/ CreateGroupWith(TypedGroupRequests)
    \/ ReplaceGroupWith(TypedGroupRequests)
    \/ DeleteGroup

SpecMembers == InitMembers /\ [][NextMembers]_vars

\* what one member of a request resolves to
member_outcome(us, gs, m) ==
    CASE m.resource_type = Some("Group") -> "internal"
      [] m.resource_type = Some("User") ->
             IF Unwrap(m.value) \in DOMAIN us THEN "ok" ELSE "not_found"
      [] OTHER ->
             IF Unwrap(m.value) \in DOMAIN gs THEN "internal"
             ELSE IF Unwrap(m.value) \in DOMAIN us THEN "ok"
             ELSE "not_found"

request_members(req) == IF req.members = None THEN {} ELSE Unwrap(req.members)

\* the outcome of the first member, in key order, that does not resolve
first_outcome(us, gs, req) ==
    LET ms == members_in_order(request_members(req))
        failing == {i \in 1..Len(ms) : member_outcome(us, gs, ms[i]) # "ok"}
    IN IF failing = {} THEN "ok"
       ELSE member_outcome(us, gs,
                ms[CHOOSE i \in failing : \A j \in failing : i <= j])

display_name_taken(gs, req, own) ==
    \E g \in DOMAIN gs \ own : gs[g].display_name = req.display_name

stored_as_users(r, id, req) ==
    /\ id \in DOMAIN r.groups
    /\ \A m \in members_or_empty(r.groups[id]) : m.resource_type = Some("User")
    /\ member_ids(r.groups[id]) = {Unwrap(m.value) : m \in request_members(req)}
    /\ member_ids(r.groups[id]) \subseteq DOMAIN r.users

\* C15 as stated: create_group and replace_group return Not Found whenever a
\* member's value is the id of no stored user and no stored group, return
\* Internal Error whenever a member is typed Group or is untyped with the id
\* of a stored group, and on success store every member typed User.
C15_AsClaimed ==
    \A req \in TypedGroupRequests :
      LET ms == request_members(req)
          unknown == \E m \in ms : Unwrap(m.value) \notin DOMAIN users \cup DOMAIN groups
          nested == \E m \in ms :
                       \/ m.resource_type = Some("Group")
                       \/ m.resource_type = None /\ Unwrap(m.value) \in DOMAIN groups
          holds(r, id) ==
              /\ unknown => r.status = "not_found"
              /\ nested => r.status = "internal"
              /\ r.status = "ok" => stored_as_users(r, id, req)
      IN /\ \A id \in NewGroupIds :
               ~display_name_taken(groups, req, {}) =>
                   holds(create_group(users, groups, id, req), id)
         /\ \A id \in DOMAIN groups :
               ~display_name_taken(groups, req, {id}) =>
                   holds(replace_group(users, groups, id, req), id)

\* C15: for a request whose displayName is free, create_group and
\* replace_group of a stored group return the outcome of the first member, in
\* key order, that does not resolve: Internal Error for a member typed Group
\* (whatever its value) or an untyped member whose value is a stored group's
\* id, Not Found for a member typed User whose value is no stored user's id
\* or an untyped member whose value is the id of no stored user and no stored
\* group.  They succeed exactly when every member resolves to a stored user,
\* and every member stored on success is typed User.
C15_MemberResolution ==
    \A req \in TypedGroupRequests :
      LET first == first_outcome(users, groups, req) IN
      /\ \A id \in NewGroupIds :
            ~display_name_taken(groups, req, {}) =>
                LET r == create_group(users, groups, id, req) IN
                /\ r.status = first
                /\ r.status = "ok" => stored_as_users(r, id, req)
      /\ \A id \in DOMAIN groups :
            ~display_name_taken(groups, req, {id}) =>
                LET r == replace_group(users, groups, id, req) IN
                /\ r.status = first
                /\ r.status = "ok" => stored_as_users(r, id, req)

\* a group is stored whose untyped members were stored typed User, and a
\* replace naming that group as an untyped member is refused as nested
C15_Witness ==
    /\ last = [op |-> "replace_group", status |-> "ok"]
    /\ "g1" \in DOMAIN groups
    /\ member_ids(groups["g1"]) = {"u1", "u2"}
    /\ \A m \in members_or_empty(groups["g1"]) : m.resource_type = Some("User")
    /\ LET req == CreateGroupRequest("sales", None,
                      Some({GroupMember(None, Some("g1")),
                            GroupMember(None, Some("u1"))}))
       IN /\ req \in TypedGroupRequests
          /\ replace_group(users, groups, "g1", req).status = "internal"

(***************************************************************************)
(* Provider: the errors of a store call, as the client sees them.  A       *)
(* String is the sequence of the pieces format! puts together.             *)
(***************************************************************************)
\* ProviderStoreError
StoreError(error) == [kind |-> "StoreError", error |-> error]
Scim(error) == [kind |-> "Scim", error |-> error]

\* response::Error
Error_new(status, error_type, detail) ==
    [status |-> status, error_type |-> error_type, detail |-> detail]
not_found(id) == Error_new("not_found", None, <<"Resource ", id, " not found">>)
\* a conflict that carries no scimType
conflict_without_type(identifier) ==
    Error_new("conflict", None,
              <<"Resource matching ", identifier, " exists already">>)

conflict(identifier) ==
    Error_new("conflict", Some("uniqueness"),
              <<"Resource matching ", identifier, " exists already">>)

internal_error(detail) == Error_new("internal", None, detail)

\* ProviderStoreError::with_context
with_context(self, context) ==
    IF self.kind = "StoreError"
    THEN [inner |-> self, context |-> context]
    ELSE [inner |-> self, context |-> <<>>]

\* impl From<MappedError> for Error: format!("{} {error}", value.context)
Error_from(value) ==
    IF value.inner.kind = "StoreError"
    THEN internal_error(value.context \o <<" ">> \o value.inner.error)
    ELSE value.inner.error

\* the details of the errors of a backing store
StoreDetails == {<<"connection to 10.0.0.5:5432 refused">>, <<"disk full">>}
\* what a store call returns besides its own result: nothing, or an error
Faults == {None} \cup {Some(StoreError(d)) : d \in StoreDetails}

Answer(op, error) == [op |-> op, status |-> error.status, error |-> Some(error)]

\* a Provider method: the store call, then map_err(err_with_context(context))
ProviderCall(op, context, r, scim_error) ==
    \E fault \in Faults :
        IF fault # None
        THEN /\ last' = Answer(op, Error_from(with_context(Unwrap(fault), context)))
             /\ UNCHANGED <<users, groups>>
        ELSE /\ users' = r.users
             /\ groups' = r.groups
             /\ last' = IF r.status = "ok"
                        THEN [op |-> op, status |-> "ok", error |-> None]
                        ELSE Answer(op, Error_from(with_context(Scim(scim_error),
                                                                context)))

\* the JSON body of a POST /Users
UserBody(name, active, external_id, user_groups) ==
    [userName |-> name, active |-> active, externalId |-> external_id,
     groups |-> user_groups]
UserBodies ==
    {UserBody(r.name, r.active, r.external_id, g) :
        r \in PlainUserRequests,
        g \in {None, Some(<<>>), Some(<<UserGroup("g1", "sales")>>)}}

\* #[derive(Deserialize)] of CreateUserRequest: the struct has the fields
\* userName, active and externalId, and serde skips any other field of the body
deserialize_CreateUserRequest(body) ==
    CreateUserRequest(body.userName, body.active, body.externalId)

Provider_create_user ==
    \E id \in NewUserIds, body \in UserBodies :
        LET req == deserialize_CreateUserRequest(body)
            r == create_user(users, groups, id, req) IN
        /\ ProviderCall("create_user", <<"create user failed!">>, r,
                        conflict(req.name))
        /\ issued' = IF last'.status = "ok" THEN issued \cup {id} ELSE issued
        /\ UNCHANGED <<patch, sync>>

Provider_get_user_by_id ==
    \E id \in UserTargets \cup {UnknownId} :
        /\ ProviderCall("get_user_by_id", <<"get user by id ", id, " failed!">>,
                        Result(users, groups,
                               IF get_user_by_id(users, id) = None
                               THEN "not_found" ELSE "ok"),
                        not_found(id))
        /\ UNCHANGED <<issued, patch, sync>>

Provider_replace_user ==
    \E id \in UserTargets, req \in PlainUserRequests :
        LET r == replace_user(users, groups, id, req) IN
        /\ ProviderCall("replace_user", <<"replace user by id ", id, " failed!">>,
                        r, IF r.status = "conflict" THEN conflict(req.name)
                           ELSE not_found(id))
        /\ UNCHANGED <<issued, patch, sync>>

Provider_delete_user ==
    \E id \in UserTargets :
        /\ ProviderCall("delete_user", <<"delete user by id ", id, " failed!">>,
                        delete_user_by_id(users, groups, id), not_found(id))
        /\ UNCHANGED <<issued, patch, sync>>

InitProvider ==
    /\ users = <<>>
    /\ groups = <<>>
    /\ issued = {}
    /\ last = [op |-> "new", status |-> "ok", error |-> None]
    /\ patch = [c \in Clients |-> NoPatch]
    /\ lock = None
    /\ thread = [t \in Threads |-> Idle]
    /\ committed = [users |-> users, groups |-> groups]
    /\ meta = <<>>
    /\ clock = 0

NextProvider ==
    \/ Provider_create_user
    \/ Provider_get_user_by_id
    \/ Provider_replace_user
    \/ Provider_delete_user

SpecProvider == InitProvider /\ [][NextProvider]_vars

\* the context strings of the Provider's user methods
Contexts ==
    {<<"create user failed!">>}
        \cup {<<"get user by id ", id, " failed!">> : id \in UserIds \cup {UnknownId}}
        \cup {<<"replace user by id ", id, " failed!">> : id \in UserIds}
        \cup {<<"delete user by id ", id, " failed!">> : id \in UserIds}

pieces(detail) == {detail[i] : i \in 1..Len(detail)}

\* C16: the error the Provider returns for a store-internal error is an
\* Internal Error whose detail is determined by the context string alone:
\* two store errors with different detail give the same error, and an
\* Internal Error answer carries no detail of the store.
C16_NoStoreDetailReturned ==
    /\ \A context \in Contexts, d1, d2 \in StoreDetails :
          LET e1 == Error_from(with_context(StoreError(d1), context))
              e2 == Error_from(with_context(StoreError(d2), context))
          IN e1.status = "internal" /\ e1 = e2
    /\ last.status = "internal" =>
          \A d \in StoreDetails : pieces(d) \cap pieces(Unwrap(last.error).detail) = {}

\* C17: a create-user request whose body asserts a non-empty groups list is
\* rejected with a Mutability error and leaves the store as it was.
C17_GroupsInCreateRejected ==
    \A id \in NewUserIds :
      \A body \in {b \in UserBodies : b.groups # None /\ Unwrap(b.groups) # <<>>} :
        LET r == create_user(users, groups, id, deserialize_CreateUserRequest(body))
        IN /\ r.status = "mutability"
           /\ r.users = users
           /\ r.groups = groups

create_user_returns(us, gs, id, user_request) ==
    IF create_user(us, gs, id, user_request).status # "ok" THEN None
    ELSE Some([id |-> id,
               name |-> user_request.name,
               external_id |-> user_request.external_id,
               active |-> user_request.active,
               groups |-> None])

\* replace_user: Ok(existing_user.clone()), after the assignment to it
replace_user_returns(us, gs, user_id, user_request) ==
    LET r == replace_user(us, gs, user_id, user_request) IN
    IF r.status # "ok" THEN None ELSE Some(r.users[user_id])

\* create_group: Ok(new_group), with the members the loop filled in
create_group_returns(us, gs, id, group_request) ==
    IF create_group(us, gs, id, group_request).status # "ok" THEN None
    ELSE Some([id |-> id,
               display_name |-> group_request.display_name,
               external_id |-> group_request.external_id,
               members |->
                   IF group_request.members = None THEN None
                   ELSE Some(add_members(us, gs,
                                 members_in_order(Unwrap(group_request.members)),
                                 {}, id, group_request.display_name).members)])

\* replace_group: Ok(existing_group.clone()), after the assignment to it
replace_group_returns(us, gs, group_id, group_request) ==
    LET r == replace_group(us, gs, group_id, group_request) IN
    IF r.status # "ok" THEN None ELSE Some(r.groups[group_id])

\* the response of a PATCH is shaped from what the replace call returned
patch_group_returns(us, gs, group_id, request, stored_group) ==
    LET r == apply_group_ops(request, stored_group) IN
    IF r.status # "ok" THEN None
    ELSE replace_group_returns(us, gs, group_id,
             LET updated == Unwrap(r.resource) IN
             CreateGroupRequest(updated.display_name, updated.external_id,
                                updated.members))

patch_user_returns(us, gs, user_id, request, stored_user) ==
    LET r == apply_user_ops(request, stored_user) IN
    IF r.status # "ok" THEN None
    ELSE replace_user_returns(us, gs, user_id,
             LET updated == Unwrap(r.resource) IN
             CreateUserRequest(updated.name, updated.active, updated.external_id))

\* the store the responses are checked from: user u1 (jim, with externalId)
\* and group g1 (sales) with member u1
ResponseStore ==
    LET a == create_user(<<>>, <<>>, "u1",
                         CreateUserRequest("jim", None, Some("ext")))
    IN create_group(a.users, a.groups, "g1",
           CreateGroupRequest("sales", None,
               Some({GroupMember(None, Some("u1"))})))

InitResponses ==
    /\ users = ResponseStore.users
    /\ groups = ResponseStore.groups
    /\ issued = {"u1", "g1"}
    /\ last = [op |-> "create_group", status |-> ResponseStore.status]
    /\ patch = [c \in Clients |-> NoPatch]
    /\ lock = None
    /\ thread = [t \in Threads |-> Idle]
    /\ committed = [users |-> users, groups |-> groups]
    /\ meta = <<>>
    /\ clock = 0

ResponseUserRequests ==
    {CreateUserRequest(n, None, e) : n \in {"jim", "dwight"}, e \in ExternalIds}
ResponseGroupRequests ==
    {CreateGroupRequest(d, None, ms) :
        d \in DisplayNames,
        ms \in {None, Some({}), Some({GroupMember(None, Some("u1"))}),
                Some({GroupMember(None, Some("u1")), GroupMember(None, Some("u2"))})}}

ResponsePatchRequests ==
    {request_of(ops) : ops \in {<<AddMember("u2", "dwight")>>,
                                <<Remove(MEMBERS)>>,
                                <<Remove(MEMBERS), AddMember("u1", "jim")>>}}

NextResponses ==
    \/ CreateUser(ResponseUserRequests)
    \/ PatchGroupLoad(1, ResponsePatchRequests)
    \/ PatchGroupCommit(1)
    \/ PatchUserLoad(1, UserPatchRequests)
    \/ PatchUserCommit(1)

SpecResponses == InitResponses /\ [][NextResponses]_vars

\* C19: the resource a successful create, replace or PATCH of a user or of a
\* group returns is the resource a get of the same id returns on the store
\* the call left, a group's members included.
C19_ResponseIsCommittedState ==
    /\ \A req \in ResponseUserRequests :
          /\ \A id \in NewUserIds :
                LET r == create_user(users, groups, id, req) IN
                r.status = "ok" =>
                    create_user_returns(users, groups, id, req)
                        = get_user_by_id(r.users, id)
          /\ \A id \in UserTargets :
                LET r == replace_user(users, groups, id, req) IN
                r.status = "ok" =>
                    replace_user_returns(users, groups, id, req)
                        = get_user_by_id(r.users, id)
    /\ \A req \in ResponseGroupRequests :
          /\ \A id \in NewGroupIds :
                LET r == create_group(users, groups, id, req) IN
                r.status = "ok" =>
                    create_group_returns(users, groups, id, req)
                        = get_group_by_id(r.groups, id)
          /\ \A id \in GroupTargets :
                LET r == replace_group(users, groups, id, req) IN
                r.status = "ok" =>
                    replace_group_returns(users, groups, id, req)
                        = get_group_by_id(r.groups, id)
    /\ \A c \in Clients :
          patch[c].pc = "loaded" =>
              LET p == patch[c]
                  base == Unwrap(p.base)
              IN IF p.kind = "group"
                 THEN LET r == patch_group(users, groups, p.id, p.request, base) IN
                      r.status = "ok" =>
                          patch_group_returns(users, groups, p.id, p.request, base)
                              = get_group_by_id(r.groups, p.id)
                 ELSE LET r == patch_user(users, groups, p.id, p.request, base) IN
                      r.status = "ok" =>
                          patch_user_returns(users, groups, p.id, p.request, base)
                              = get_user_by_id(r.users, p.id)

\* a PATCH that adds a member is loaded on a group with a member, a user who
\* is in a group can be replaced, and each of the calls succeeds and returns
\* a resource
C19_Witness ==
    /\ patch[1].pc = "loaded"
    /\ patch[1].kind = "group"
    /\ patch[1].request = request_of(<<AddMember("u2", "dwight")>>)
    /\ member_ids(groups[patch[1].id]) = {"u1"}
    /\ LET got == patch_group_returns(users, groups, patch[1].id,
                                      patch[1].request, Unwrap(patch[1].base))
       IN got # None /\ member_ids(Unwrap(got)) = {"u1", "u2"}
    /\ \E id \in UserTargets :
          LET got == replace_user_returns(users, groups, id,
                         CreateUserRequest("dwight", None, Some("ext")))
          IN got # None /\ Unwrap(got).groups # None

(***************************************************************************)
(* Listing: the filter of the query parameters and list_users /            *)
(* list_groups.  A raw filter is a string, modelled by its characters.     *)
(***************************************************************************)
QUOTE == <<"\"">>
EQ == <<" ", "e", "q", " ">>
USERNAME == lower_chars(chars_of("userName"))
DISPLAYNAME == lower_chars(chars_of("displayName"))

\* the filter string  attribute operator "value"
RawFilter(attribute, operator, value) ==
    chars_of(attribute) \o <<" ">> \o chars_of(operator) \o <<" ">>
        \o QUOTE \o chars_of(value) \o QUOTE

\* FilterOp
UserNameEq(username) == [op |-> "UserNameEq", value |-> username]
DisplayNameEq(display_name) == [op |-> "DisplayNameEq", value |-> display_name]

\* str::split: the pieces between the occurrences of the separator, found
\* from the left
RECURSIVE split(_, _)
split(cs, sep) ==
    LET found == {i \in 1..(Len(cs) - Len(sep) + 1) :
                      SubSeq(cs, i, i + Len(sep) - 1) = sep}
    IN IF found = {} THEN <<cs>>
       ELSE LET i == CHOOSE k \in found : \A l \in found : k <= l
            IN <<SubSeq(cs, 1, i - 1)>>
                   \o split(SubSeq(cs, i + Len(sep), Len(cs)), sep)

\* the closure is_quoted_value of parse_filter_param
is_quoted_value(v) ==
    IF Len(v) > 2 /\ starts_with(v, QUOTE) /\ ends_with(v, QUOTE)
    THEN Some(SubSeq(v, 2, Len(v) - 1))
    ELSE None

\* parse_filter_param without the to_lowercase of the raw filter
parse_filter_param_keeps_case(raw_filter) ==
    LET raw == trim(raw_filter)
        parts == split(raw, EQ)
    IN IF Len(parts) # 2
       THEN [status |-> "invalid_filter", filter |-> None]
       ELSE LET value == is_quoted_value(parts[2]) IN
            CASE parts[1] = USERNAME /\ value # None ->
                     [status |-> "ok", filter |-> Some(UserNameEq(Unwrap(value)))]
              [] parts[1] = DISPLAYNAME /\ value # None ->
                     [status |-> "ok", filter |-> Some(DisplayNameEq(Unwrap(value)))]
              [] OTHER -> [status |-> "invalid_filter", filter |-> None]

\* parse_filter_param
parse_filter_param(raw_filter) ==
    LET raw == lower_chars(trim(raw_filter))
        parts == split(raw, EQ)
    IN IF Len(parts) # 2
       THEN [status |-> "invalid_filter", filter |-> None]
       ELSE LET value == is_quoted_value(parts[2]) IN
            CASE parts[1] = USERNAME /\ value # None ->
                     [status |-> "ok", filter |-> Some(UserNameEq(Unwrap(value)))]
              [] parts[1] = DISPLAYNAME /\ value # None ->
                     [status |-> "ok", filter |-> Some(DisplayNameEq(Unwrap(value)))]
              [] OTHER -> [status |-> "invalid_filter", filter |-> None]

\* InMemoryProviderStore::list_users; the Vec is modelled by its set of users
list_users(us, filter) ==
    CASE filter = None ->
             [status |-> "ok", resources |-> {us[u] : u \in DOMAIN us}]
      [] filter # None /\ Unwrap(filter).op = "UserNameEq" ->
             [status |-> "ok",
              resources |-> {us[u] : u \in {v \in DOMAIN us :
                    chars_eq_ignore_ascii_case(chars_of(us[v].name),
                                               Unwrap(filter).value)}}]
      [] OTHER -> [status |-> "invalid_filter", resources |-> {}]

\* InMemoryProviderStore::list_groups
list_groups(gs, filter) ==
    CASE filter = None ->
             [status |-> "ok", resources |-> {gs[g] : g \in DOMAIN gs}]
      [] filter # None /\ Unwrap(filter).op = "DisplayNameEq" ->
             [status |-> "ok",
              resources |-> {gs[g] : g \in {h \in DOMAIN gs :
                    chars_eq_ignore_ascii_case(chars_of(gs[h].display_name),
                                               Unwrap(filter).value)}}]
      [] OTHER -> [status |-> "invalid_filter", resources |-> {}]

ListUserRequests == {CreateUserRequest(n, None, None) : n \in UserNames}

NextLists ==
    \/ CreateUser(ListUserRequests)
    \/ DeleteUser
    \/ CreateGroupWith(NamedGroupRequests)
    \/ DeleteGroup

SpecLists == Init /\ [][NextLists]_vars

\* C20: list_users with the filter userName eq "n" returns the stored users
\* whose userName equals n ignoring case, and exactly the one user when n is
\* the userName of a stored user; list_groups with a displayName filter does
\* the same for groups; a list without filter returns every stored resource.
C20_FilteredListIsExact ==
    /\ \A n \in UserNames, operator \in {"eq", "Eq"} :
          LET f == parse_filter_param(RawFilter("userName", operator, n))
              r == list_users(users, f.filter)
          IN /\ f.status = "ok" /\ r.status = "ok"
             /\ r.resources = {users[u] : u \in {v \in DOMAIN users :
                                   eq_ignore_ascii_case(users[v].name, n)}}
             /\ \A u \in DOMAIN users :
                   users[u].name = n => r.resources = {users[u]}
    /\ \A d \in CaseDisplayNames, operator \in {"eq", "Eq"} :
          LET f == parse_filter_param(RawFilter("displayName", operator, d))
              r == list_groups(groups, f.filter)
          IN /\ f.status = "ok" /\ r.status = "ok"
             /\ r.resources = {groups[g] : g \in {h \in DOMAIN groups :
                                   eq_ignore_ascii_case(groups[h].display_name, d)}}
             /\ \A g \in DOMAIN groups :
                   groups[g].display_name = d => r.resources = {groups[g]}
    /\ list_users(users, None) =
           [status |-> "ok", resources |-> {users[u] : u \in DOMAIN users}]
    /\ list_groups(groups, None) =
           [status |-> "ok", resources |-> {groups[g] : g \in DOMAIN groups}]

(***************************************************************************)
(* QueryParams::filter on the filter strings of the model                  *)
(***************************************************************************)
FilterPrefixes == {<<>>, <<" ">>, <<"(">>}
FilterAttributes == {<<"U", "S", "E", "R", "N", "A", "M", "E">>, chars_of("displayName"), <<"i", "d">>}
FilterOperators == {EQ, <<" ", "E", "q", " ">>, <<" ", "g", "t", " ">>}
FilterValues == {<<"\"", "J", "i", "m", "\"">>, <<"j", "i", "m">>, <<"\"", "\"">>, <<"\"", "a", " ", "e", "q", " ", "b", "\"">>}
FilterSuffixes == {<<>>, <<" ">>, <<" ", "e", "x", "t", "r", "a">>, <<" ", "o", "r", " ", "i", "d", " ", "s", "w", " ", "\"", "x", "\"">>}
RawFilters ==
    {p \o a \o o \o v \o x :
        p \in FilterPrefixes, a \in FilterAttributes, o \in FilterOperators,
        v \in FilterValues, x \in FilterSuffixes}

\* QueryParams::filter
QueryParams_filter(filter) ==
    IF filter = None THEN [status |-> "ok", filter |-> None]
    ELSE parse_filter_param(Unwrap(filter))

InitFilter ==
    /\ users = <<>>
    /\ groups = <<>>
    /\ issued = {}
    /\ last = [op |-> "new", status |-> "ok", raw |-> None, filter |-> None]
    /\ patch = [c \in Clients |-> NoPatch]
    /\ lock = None
    /\ thread = [t \in Threads |-> Idle]
    /\ committed = [users |-> users, groups |-> groups]
    /\ meta = <<>>
    /\ clock = 0

Filter ==
    \E raw \in {None} \cup {Some(f) : f \in RawFilters} :
        LET r == QueryParams_filter(raw) IN
        /\ last' = [op |-> "filter", status |-> r.status, raw |-> raw,
                    filter |-> r.filter]
        /\ UNCHANGED <<users, groups, issued, patch, sync>>

NextFilter == Filter

SpecFilter == InitFilter /\ [][NextFilter]_vars

contains(cs, sep) ==
    \E i \in 1..(Len(cs) - Len(sep) + 1) : SubSeq(cs, i, i + Len(sep) - 1) = sep

\* the filter string cs is  attribute eq "v"  with a non-empty v
has_form(cs, attribute) ==
    /\ starts_with(cs, attribute \o EQ \o QUOTE)
    /\ ends_with(cs, QUOTE)
    /\ Len(cs) > Len(attribute) + Len(EQ) + 2
quoted_part(cs, attribute) ==
    SubSeq(cs, Len(attribute) + Len(EQ) + 2, Len(cs) - 1)

\* C21 as stated: every filter string that, trimmed and lower-cased, is
\* username eq "v" or displayname eq "v" with a non-empty v parses to
\* UserNameEq(v) respectively DisplayNameEq(v).
C21_AsClaimed ==
    last.op = "filter" /\ last.raw # None =>
        LET cs == lower_chars(trim(Unwrap(last.raw))) IN
        /\ has_form(cs, USERNAME) =>
              /\ last.status = "ok"
              /\ last.filter = Some(UserNameEq(quoted_part(cs, USERNAME)))
        /\ has_form(cs, DISPLAYNAME) =>
              /\ last.status = "ok"
              /\ last.filter = Some(DisplayNameEq(quoted_part(cs, DISPLAYNAME)))

\* C21: every filter string that, trimmed and lower-cased, is
\* username eq "v" or displayname eq "v" with a non-empty v that does not
\* contain " eq " parses to UserNameEq(v) respectively DisplayNameEq(v), the
\* quotes stripped and v lower-cased, whatever the letter case of the input.
C21_FilterParses ==
    last.op = "filter" /\ last.raw # None =>
        LET cs == lower_chars(trim(Unwrap(last.raw))) IN
        /\ has_form(cs, USERNAME) /\ ~contains(quoted_part(cs, USERNAME), EQ) =>
              /\ last.status = "ok"
              /\ last.filter = Some(UserNameEq(quoted_part(cs, USERNAME)))
        /\ has_form(cs, DISPLAYNAME) /\ ~contains(quoted_part(cs, DISPLAYNAME), EQ) =>
              /\ last.status = "ok"
              /\ last.filter = Some(DisplayNameEq(quoted_part(cs, DISPLAYNAME)))

\* the filter  USERNAME Eq "Jim"  followed by a blank was parsed to UserNameEq("jim")
C21_Witness ==
    /\ last.op = "filter"
    /\ last.raw = Some(<<"U", "S", "E", "R", "N", "A", "M", "E">> \o <<" ", "E", "q", " ">> \o <<"\"", "J", "i", "m", "\"">> \o <<" ">>)
    /\ last.filter = Some(UserNameEq(chars_of("jim")))

\* the filter string cs is one expression  attribute eq "value": the value
\* ends at the first quotation mark after the opening one
single_expression(cs) ==
    \E attribute \in {USERNAME, DISPLAYNAME} :
        /\ has_form(cs, attribute)
        /\ ~contains(quoted_part(cs, attribute), QUOTE)
        /\ ~contains(quoted_part(cs, attribute), EQ)

\* C22: parse_filter_param returns an invalid-filter error for every filter
\* string that is not a single  attribute eq "value"  expression; it returns
\* no filter that absorbs an extra clause.
C22_OtherFiltersRejected ==
    last.op = "filter" /\ last.raw # None =>
        (~single_expression(lower_chars(trim(Unwrap(last.raw))))
            => last.status = "invalid_filter" /\ last.filter = None)

(***************************************************************************)
(* StoredMeta: the timestamps and the version of the stored resources.     *)
(* Utc::now() reads the wall clock: a reading is never earlier than the    *)
(* reading before it, and it is the same when the clock has not advanced.  *)
(***************************************************************************)
MaxTime == 2
Readings == clock..MaxTime

VERSION == "W/unimplemented"
StoredMeta(created, last_modified, version) ==
    [created |-> created, last_modified |-> last_modified, version |-> version]

\* the meta of create_user / create_group: two readings of the clock
created_meta(created, last_modified) == StoredMeta(created, last_modified, VERSION)

\* the meta of replace_user / replace_group
replaced_meta(existing_meta, now) ==
    StoredMeta(existing_meta.created, now, existing_meta.version)

InitMeta ==
    /\ users = ResponseStore.users
    /\ groups = ResponseStore.groups
    /\ issued = {"u1", "g1"}
    /\ last = [op |-> "create_group", status |-> ResponseStore.status, id |-> "g1"]
    /\ patch = [c \in Clients |-> NoPatch]
    /\ lock = None
    /\ thread = [t \in Threads |-> Idle]
    /\ committed = [users |-> users, groups |-> groups]
    /\ meta = [id \in {"u1", "g1"} |-> created_meta(0, 0)]
    /\ clock = 0

\* a store call with its StoredMeta: r is the result of the call on users and
\* groups, written the meta the call stores for id when it succeeds
StoreMeta(r, op, id, written, now) ==
    /\ users' = r.users
    /\ groups' = r.groups
    /\ last' = [op |-> op, status |-> r.status, id |-> id]
    /\ IF r.status = "ok"
       THEN meta' = [i \in DOMAIN meta \cup {id} |->
                        IF i = id THEN written ELSE meta[i]]
            /\ clock' = now
       ELSE UNCHANGED time
    /\ UNCHANGED <<lock, thread, committed>>

MetaUserRequests == {CreateUserRequest("dwight", None, None)}
MetaGroupRequests ==
    {CreateGroupRequest("sales", None, ms) :
        ms \in {None, Some({GroupMember(None, Some("u1"))}),
                Some({GroupMember(None, Some("u2"))})}}
MetaPatchRequests ==
    {request_of(ops) : ops \in {<<AddMember("u1", "jim")>>, <<Remove(MEMBERS)>>}}
MetaUserPatchRequests == {request_of(<<Replace(None, ActiveValue("true"))>>)}

MetaCreateUser ==
    \E id \in NewUserIds, req \in MetaUserRequests :
      \E created \in Readings :
        \E last_modified \in created..MaxTime :
            LET r == create_user(users, groups, id, req) IN
            /\ StoreMeta(r, "create_user", id,
                         created_meta(created, last_modified), last_modified)
            /\ issued' = IF r.status = "ok" THEN issued \cup {id} ELSE issued
            /\ UNCHANGED patch

MetaReplaceUser ==
    \E id \in DOMAIN users, req \in MetaUserRequests, now \in Readings :
        /\ StoreMeta(replace_user(users, groups, id, req), "replace_user", id,
                     replaced_meta(meta[id], now), now)
        /\ UNCHANGED <<issued, patch>>

MetaReplaceGroup ==
    \E id \in DOMAIN groups, req \in MetaGroupRequests, now \in Readings :
        /\ StoreMeta(replace_group(users, groups, id, req), "replace_group", id,
                     replaced_meta(meta[id], now), now)
        /\ UNCHANGED <<issued, patch>>

\* the commit of a PATCH of a group: the engine, then the store's replace
MetaPatchGroupCommit(c) ==
    /\ patch[c].pc = "loaded"
    /\ patch[c].kind = "group"
    /\ \E now \in Readings :
         LET r == patch_group(users, groups, patch[c].id, patch[c].request,
                              Unwrap(patch[c].base))
         IN /\ StoreMeta(r, "patch_group", patch[c].id,
                         replaced_meta(meta[patch[c].id], now), now)
            /\ patch' = [patch EXCEPT ![c].pc = "done", ![c].status = r.status]
    /\ UNCHANGED issued

MetaPatchUserCommit(c) ==
    /\ patch[c].pc = "loaded"
    /\ patch[c].kind = "user"
    /\ \E now \in Readings :
         LET r == patch_user(users, groups, patch[c].id, patch[c].request,
                             Unwrap(patch[c].base))
         IN /\ StoreMeta(r, "patch_user", patch[c].id,
                         replaced_meta(meta[patch[c].id], now), now)
            /\ patch' = [patch EXCEPT ![c].pc = "done", ![c].status = r.status]
    /\ UNCHANGED issued

NextMeta ==
    \/ MetaCreateUser
    \/ MetaReplaceUser
    \/ MetaReplaceGroup
    \/ PatchGroupLoad(1, MetaPatchRequests)
    \/ MetaPatchGroupCommit(1)
    \/ PatchUserLoad(1, MetaUserPatchRequests)
    \/ MetaPatchUserCommit(1)

SpecMeta == InitMeta /\ [][NextMeta]_vars

Mutations == {"replace_user", "replace_group", "patch_user", "patch_group"}

\* C23: in every step, a resource that stays stored keeps its created
\* timestamp and its version, the placeholder, and a successful replace or
\* PATCH of it sets its lastModified to a value different from, and not
\* earlier than, the one it had.
C23_TimestampsAdvance ==
    [][\A id \in DOMAIN meta \cap DOMAIN meta' :
          /\ meta'[id].created = meta[id].created
          /\ meta'[id].version = meta[id].version
          /\ meta[id].version = VERSION
          /\ (last'.op \in Mutations /\ last'.status = "ok" /\ last'.id = id) =>
                /\ meta'[id].last_modified # meta[id].last_modified
                /\ meta'[id].last_modified >= meta[id].last_modified]_vars

\* every operation of the request adds one member the group already contains
adds_only_existing(request, group) ==
    /\ Len(request.operations) > 0
    /\ \A i \in 1..Len(request.operations) :
          \E a \in AddedMembers :
              /\ request.operations[i] = AddMember(a[1], a[2])
              /\ count_members(group, a[1]) > 0

\* C24: the commit of a PATCH of a group not written since the PATCH read
\* it, whose operations only add members the group already contains, leaves
\* the group and the group's lastModified as they were.
C24_AddExistingChangesNothing ==
    [][(/\ patch[1].pc = "loaded"
        /\ patch[1].kind = "group"
        /\ patch'[1].pc = "done"
        /\ patch[1].id \in DOMAIN groups
        /\ patch[1].base = Some(groups[patch[1].id])
        /\ adds_only_existing(patch[1].request, groups[patch[1].id]))
       => /\ groups' = groups
          /\ meta'[patch[1].id].last_modified = meta[patch[1].id].last_modified]_vars

(***************************************************************************)
(* Claims about the schema check of a PATCH, under SpecRequests            *)
(***************************************************************************)
GROUP_URN == "urn:ietf:params:scim:schemas:core:2.0:Group"
SchemaLists ==
    {<<>>, <<PATCHOP_URN>>, <<GROUP_URN>>, <<PATCHOP_URN, GROUP_URN>>,
     <<GROUP_URN, PATCHOP_URN>>, <<PATCHOP_URN, PATCHOP_URN>>}

\* the requests of the clients of SpecRequests
SampleUserRequests ==
    {request_of(ops) :
        ops \in {<<Replace(None, ActiveValue("true"))>>,
                 <<Replace(None, ActiveValue("false"))>>,
                 <<Replace(None, ActiveValue("true")),
                   Add(None, ActiveValue("true"))>>}}
        \cup {PatchRequest(<<>>, <<Replace(None, ActiveValue("true"))>>)}
SampleGroupRequests ==
    {request_of(<<AddMember("u2", "dwight")>>), request_of(<<Remove(MEMBERS)>>),
     PatchRequest(<<PATCHOP_URN, GROUP_URN>>, <<Remove(MEMBERS)>>)}

NextRequests ==
    \/ PatchGroupLoad(1, SampleGroupRequests)
    \/ PatchGroupCommit(1)
    \/ PatchUserLoad(1, SampleUserRequests)
    \/ PatchUserCommit(1)

SpecRequests == InitPatch /\ [][NextRequests]_vars

\* C25: for every stored group and user and every list of operations,
\* failing ones included, apply_group_ops and apply_user_ops return Invalid
\* with no resource when schemas is not the one-element list of the PatchOp
\* URN, and otherwise return what the loop over the operations returns.
C25_SchemaCheckedFirst ==
    \A schemas \in SchemaLists :
        /\ \A id \in DOMAIN groups, ops \in Ops(GroupPatchOps) :
              LET r == apply_group_ops(PatchRequest(schemas, ops), groups[id]) IN
              IF schemas = <<PATCHOP_URN>>
              THEN r = group_ops_from(ops, 1, groups[id])
              ELSE r = PatchErr("invalid")
        /\ \A id \in DOMAIN users, ops \in Ops(UserPatchOps) :
              LET r == apply_user_ops(PatchRequest(schemas, ops), users[id]) IN
              IF schemas = <<PATCHOP_URN>>
              THEN r = user_ops_from(ops, 1, users[id])
              ELSE r = PatchErr("invalid")

\* a PATCH with another schemas list was answered Invalid, and a request
\* with the same schemas whose operation fails on its own is Invalid too
C25_Witness ==
    /\ patch[1].pc = "done"
    /\ patch[1].id \in DOMAIN groups
    /\ patch[1].kind = "group"
    /\ patch[1].request.schemas \in SchemaLists \ {<<PATCHOP_URN>>}
    /\ patch[1].status = "invalid"
    /\ \E op \in BadGroupOps :
          /\ apply_group_ops(request_of(<<op>>), groups[patch[1].id]).status
                = "unsupported"
          /\ apply_group_ops(PatchRequest(patch[1].request.schemas, <<op>>),
                             groups[patch[1].id]).status = "invalid"

(***************************************************************************)
(* Protocol errors and their HTTP responses                                *)
(***************************************************************************)
\* http::StatusCode: the constants the constructors of Error use
StatusCode ==
    [not_found |-> 404, conflict |-> 409, bad_request |-> 400,
     internal |-> 500, not_implemented |-> 501]

Digits == <<"0", "1", "2", "3", "4", "5", "6", "7", "8", "9">>
\* StatusCode::as_str: the three decimal digits of the code
as_str(code) ==
    <<Digits[(code \div 100) + 1], Digits[((code \div 10) % 10) + 1],
      Digits[(code % 10) + 1]>>
digit_value(c) == CHOOSE d \in 0..9 : Digits[d + 1] = c
is_digit(c) == \E d \in 0..9 : Digits[d + 1] = c
RECURSIVE parse_digits(_, _)
parse_digits(cs, acc) ==
    IF cs = <<>> THEN acc
    ELSE parse_digits(Tail(cs), acc * 10 + digit_value(Head(cs)))
\* str::parse::<u16>
parse_u16(cs) ==
    IF cs # <<>> /\ (\A i \in 1..Len(cs) : is_digit(cs[i]))
          /\ parse_digits(cs, 0) < 65536
    THEN Some(parse_digits(cs, 0)) ELSE None

\* Error::invalid_filter
invalid_filter(detail) == Error_new("bad_request", Some("invalidFilter"), detail)
\* the error of parse_filter_param for a filter it rejects
filter_error(raw_filter) ==
    LET raw == lower_chars(trim(raw_filter)) IN
    IF Len(split(raw, EQ)) # 2
    THEN invalid_filter(<<"invalid filter ", raw>>)
    ELSE invalid_filter(<<"filter ", raw, " not supported">>)
\* Error::invalid_syntax
invalid_syntax(detail) == Error_new("bad_request", Some("invalidSyntax"), detail)
\* the error of a read-only field set by a request
mutability(detail) == Error_new("bad_request", Some("mutability"), detail)
\* the error of an operation that is not implemented
not_implemented(detail) == Error_new("not_implemented", None, detail)
\* PatchRequestError to Error at the Provider boundary
Error_from_patch(status, reason) ==
    IF status = "invalid" THEN invalid_syntax(reason) ELSE not_implemented(reason)

\* the status field of the serialized Error: status.as_str().to_string()
status_field(error) == as_str(StatusCode[error.status])
\* Error::status
Error_status(error) == parse_u16(status_field(error))
\* Error::to_http_response; the body is the serialized Error
to_http_response(error) ==
    IF Error_status(error) = None
    THEN [status |-> 500,
          body |-> [status |-> as_str(500), scimType |-> None,
                    detail |-> <<"parsing ", status_field(error),
                                 " as u16 failed">>]]
    ELSE [status |-> Unwrap(Error_status(error)),
          body |-> [status |-> status_field(error),
                    scimType |-> error.error_type,
                    detail |-> error.detail]]

InitErrors ==
    /\ users = <<>>
    /\ groups = <<>>
    /\ issued = {}
    /\ last = [op |-> "new", status |-> "ok", error |-> None, response |-> None]
    /\ patch = [c \in Clients |-> NoPatch]
    /\ lock = None
    /\ thread = [t \in Threads |-> Idle]
    /\ committed = [users |-> users, groups |-> groups]
    /\ meta = <<>>
    /\ clock = 0

\* a handler answers a request with a protocol error
Respond(kind, error) ==
    /\ last' = [op |-> kind, status |-> error.status, error |-> Some(error),
                response |-> Some(to_http_response(error))]
    /\ UNCHANGED <<users, groups, issued, patch, sync>>

RespondNotFound ==
    \E id \in UserIds \cup GroupIds \cup {UnknownId} :
        Respond("not_found", not_found(id))
RespondConflict ==
    \E identifier \in UserNames \cup DisplayNames :
        Respond("conflict", conflict(identifier))
RespondInvalidFilter ==
    \E raw \in RawFilters :
        /\ parse_filter_param(raw).status = "invalid_filter"
        /\ Respond("invalid_filter", filter_error(raw))
RespondInternal ==
    \E detail \in StoreDetails, context \in Contexts :
        Respond("internal",
                Error_from(with_context(StoreError(detail), context)))
PatchReasons ==
    {<<"invalid patch schema">>, <<"only the replace op is supported for users">>,
     <<"only replacing the active property is supported">>}
RespondPatchError ==
    \E status \in PatchErrors, reason \in PatchReasons :
        Respond(IF status = "invalid" THEN "invalid_syntax" ELSE "unsupported",
                Error_from_patch(status, reason))
RespondMutability ==
    Respond("mutability", mutability(<<"groups is read-only">>))

NextErrors ==
    \/ RespondNotFound
    \/ RespondConflict
    \/ RespondInvalidFilter
    \/ RespondInternal
    \/ RespondPatchError
    \/ RespondMutability

SpecErrors == InitErrors /\ [][NextErrors]_vars

\* the HTTP status and the scimType of each kind of protocol error; the
\* kinds without a fixed scimType have none
Mapping ==
    [not_found |-> <<404, None>>, conflict |-> <<409, Some("uniqueness")>>,
     invalid_filter |-> <<400, Some("invalidFilter")>>,
     invalid_syntax |-> <<400, Some("invalidSyntax")>>,
     unsupported |-> <<501, None>>,
     mutability |-> <<400, Some("mutability")>>,
     internal |-> <<500, None>>]

C27_FailedGroupWriteChangesNothing ==
    \A req \in GroupRequests :
        /\ \A id \in NewGroupIds :
              LET r == create_group(users, groups, id, req) IN
              r.status # "ok" => r.users = users /\ r.groups = groups
        /\ \A id \in GroupTargets :
              LET r == replace_group(users, groups, id, req) IN
              r.status # "ok" => r.users = users /\ r.groups = groups

(***************************************************************************)
(* Writes that arrive after a delete                                       *)
(***************************************************************************)
LatePatchRequests ==
    {request_of(ops) : ops \in {<<AddMember("u2", "dwight")>>, <<Remove(MEMBERS)>>}}
LateGroupRequests ==
    {CreateGroupRequest("mgmt", None, Some({GroupMember(None, Some("u1"))}))}
LateUserRequests == {CreateUserRequest("jim", None, None)}

NextLate ==
    \/ PatchGroupLoad(1, LatePatchRequests)
    \/ PatchGroupCommit(1)
    \/ PatchUserLoad(1, MetaUserPatchRequests)
    \/ PatchUserCommit(1)
    \/ ReplaceGroupWith(LateGroupRequests)
    \/ ReplaceUser(LateUserRequests)
    \/ DeleteGroup
    \/ DeleteUser

SpecLate == InitPatch /\ [][NextLate]_vars

\* the ids of the groups and users that were stored and deleted; SpecLate
\* creates nothing, so every id handed out was stored
DeletedGroups == (GroupIds \cap issued) \ DOMAIN groups
DeletedUsers == (UserIds \cap issued) \ DOMAIN users

\* C28: a deleted group or user is never stored again and no user's groups
\* holds an entry for a deleted group after any step; a PATCH that read the
\* resource and commits after its delete ends with Not Found, and so does a
\* replace of a deleted id.
C28_DeleteIsFinal ==
    [][/\ \A G \in DeletedGroups :
             /\ G \notin DOMAIN groups'
             /\ \A u \in DOMAIN users' : count_entries(users'[u], G) = 0
             /\ \A req \in LateGroupRequests :
                   replace_group(users, groups, G, req).status = "not_found"
       /\ \A u \in DeletedUsers :
             /\ u \notin DOMAIN users'
             /\ \A req \in LateUserRequests :
                   replace_user(users, groups, u, req).status = "not_found"
       /\ (/\ patch[1].pc = "loaded"
           /\ patch'[1].pc = "done"
           /\ patch[1].id \in DeletedGroups \cup DeletedUsers)
          => patch'[1].status = "not_found"]_vars

\* the entries a user's groups holds, as a set
entry_set(user) ==
    IF user.groups = None THEN {}
    ELSE {Unwrap(user.groups)[i] : i \in 1..Len(Unwrap(user.groups))}

\* the request that asserts a stored group's own fields
write_back(group) ==
    CreateGroupRequest(group.display_name, group.external_id, group.members)

\* C29: in every reachable state, replace_group of a stored group with its
\* own displayName, externalId and members returns Ok and leaves the group
\* and the set of entries of every user's groups as they were.
C29_WriteBackChangesNothing ==
    \A id \in DOMAIN groups :
        LET r == replace_group(users, groups, id, write_back(groups[id])) IN
        /\ r.status = "ok"
        /\ r.groups = groups
        /\ DOMAIN r.users = DOMAIN users
        /\ \A u \in DOMAIN users : entry_set(r.users[u]) = entry_set(users[u])

(***************************************************************************)
(* Claims about PATCH of a user, under SpecRequests                        *)
(***************************************************************************)
ACTIVE == <<"a", "c", "t", "i", "v", "e">>
\* replace operations that set active, with and without path and with a
\* further field in the value
SetActiveOps ==
    {Replace(None, ActiveValue("true")), Replace(None, ActiveValue("false")),
     Replace(Some(ACTIVE), ActiveValue("false")),
     Replace(None, JObject({JField("active", "bool", "true"),
                            JField("userName", "string", "pam")}))}
\* operations that are not a replace of an object with a boolean active
OtherUserOps ==
    {Add(None, ActiveValue("true")), Remove(ACTIVE),
     Replace(None, JObject({JField("active", "string", "true")})),
     Replace(Some(ACTIVE), JString)}
sets_active(patch_op) ==
    /\ patch_op.op = "replace"
    /\ patch_op.value.kind = "object"
    /\ \E f \in patch_op.value.fields : f[1] = "active" /\ f[2] = "bool"
active_of(patch_op) ==
    LET f == CHOOSE g \in patch_op.value.fields : g[1] = "active"
    IN f[3] = "true"
\* a stored user together with its meta
stored_parts(user) == user @@ [meta |-> StoredMeta(0, 1, VERSION)]

NoValueStub == {JField("display", "string", "jim")}
ReplaceStubs ==
    {ValueStub("u1"), ValueStub("u2"), Stub("u2", "dwight"), ValueStub("U1"),
     NoValueStub}
ReplaceMembers(items) == Replace(Some(MEMBERS), JArray(items))
RenameTo(id, display_name) ==
    Replace(None, JObject({JField("id", "string", id),
                           JField("displayName", "string", display_name)}))
ReplaceRequests ==
    {request_of(<<op>>) :
        op \in {ReplaceMembers(<<>>), ReplaceMembers(<<ValueStub("u2")>>),
                ReplaceMembers(<<ValueStub("u2"), Stub("u2", "dwight")>>),
                ReplaceMembers(<<ValueStub("u1"), ValueStub("u2")>>),
                ReplaceMembers(<<NoValueStub>>),
                Replace(Some(DISPLAYNAME), JArray(<<ValueStub("u2")>>)),
                RenameTo("g1", "hr"), RenameTo("g2", "hr"),
                Replace(None, JObject({JField("displayName", "string", "hr")}))}}

NextReplace ==
    \/ PatchGroupLoad(1, ReplaceRequests)
    \/ PatchGroupCommit(1)

SpecReplace == InitPatch /\ [][NextReplace]_vars

stub_ids(items) ==
    {field(items[i], "value") : i \in {j \in 1..Len(items) :
                                         has_field(items[j], "value", "string")}}

\* C31: for every stored group and every list of stubs, a replace with path
\* members fails as Invalid when a stub has no value; otherwise the group
\* gets one member typed User per supplied id, ids that differ only in
\* letter case counting once, whatever its members were; its members are
\* absent, never an empty collection, when the list is empty; nothing else
\* of the group changes.  With another path the replace is Unsupported.
C31_ReplaceMembers ==
    \A id \in DOMAIN groups, items \in Ops(ReplaceStubs) :
        LET group == groups[id]
            r == apply_group_replace_op(Some(MEMBERS), JArray(items), group)
            other == apply_group_replace_op(Some(DISPLAYNAME), JArray(items), group)
            complete == \A i \in 1..Len(items) :
                            has_field(items[i], "value", "string")
        IN /\ other = PatchErr("unsupported")
           /\ IF ~complete THEN r = PatchErr("invalid")
              ELSE /\ r.status = "ok"
                   /\ LET updated == Unwrap(r.resource)
                          ms == members_or_empty(updated)
                      IN /\ updated = [group EXCEPT !.members = updated.members]
                         /\ updated.members # Some({})
                         /\ (items = <<>>) <=> (updated.members = None)
                         /\ \A m \in ms : /\ m.resource_type = Some("User")
                                          /\ m.value # None
                                          /\ Unwrap(m.value) \in stub_ids(items)
                         /\ {member_key(m) : m \in ms}
                               = {to_lowercase(v) : v \in stub_ids(items)}
                         /\ Cardinality(ms) = Cardinality({member_key(m) : m \in ms})

\* a PATCH replaced the members {u1} of g1 by a list naming u2 twice, and
\* the stored group has the one member u2
C31_Witness ==
    /\ patch[1].pc = "done"
    /\ patch[1].status = "ok"
    /\ patch[1].id = "g1"
    /\ patch[1].request
          = request_of(<<ReplaceMembers(<<ValueStub("u2"), Stub("u2", "dwight")>>)>>)
    /\ Unwrap(patch[1].base).members = Some({GroupMember(Some("User"), Some("u1"))})
    /\ groups["g1"].members = Some({GroupMember(Some("User"), Some("u2"))})

\* values of a replace without path: id and displayName, with a further
\* field, and other shapes
RenameValues ==
    {JObject({JField("id", "string", id), JField("displayName", "string", "hr")}) :
        id \in {"g1", "G1", "g2", "zz"}}
    \cup {JObject({JField("id", "string", "g1"),
                   JField("displayName", "string", "hr"),
                   JField("externalId", "string", "ext")})}
OtherValues ==
    {JObject({JField("displayName", "string", "hr")}),
     JObject({JField("id", "string", "g1")}),
     JObject({JField("id", "number", "1"), JField("displayName", "string", "hr")}),
     JObject({JField("active", "bool", "true")}),
     JArray(<<ValueStub("u2")>>), JString}

MEMBERS_CAPITAL == <<"M", "e", "m", "b", "e", "r", "s">>
AddPaths == {None, Some(MEMBERS), Some(MEMBERS_CAPITAL), Some(DISPLAYNAME)}
\* stubs of an add: complete ones, two whose display is the displayName of
\* the group of the model (exactly, and in another letter case), and two
\* incomplete ones
AddStubs ==
    {Stub("u2", "dwight"), Stub("U1", "jim"), Stub("u1", "sales"),
     Stub("u1", "Sales"), ValueStub("u2"), NoValueStub}
AddValues ==
    {JArray(items) : items \in Ops(AddStubs)}
        \cup {JString, JObject(Stub("u2", "dwight"))}
complete_stubs(value) ==
    /\ value.kind = "array"
    /\ \A i \in 1..Len(value.items) :
          /\ has_field(value.items[i], "value", "string")
          /\ has_field(value.items[i], "display", "string")
member_keys(ms) == {member_key(m) : m \in ms}

\* C33 as claimed: an add with path members and complete stubs none of
\* whose display equals the group's displayName returns Ok.
C33_AsClaimed ==
    \A id \in DOMAIN groups, value \in AddValues :
        (/\ complete_stubs(value)
         /\ \A i \in 1..Len(value.items) :
               field(value.items[i], "display") # groups[id].display_name)
        => apply_group_add_op(Some(MEMBERS), value, groups[id]).status = "ok"

\* C33: for every stored group, an add is Invalid unless its path is members
\* (in any letter case), its value is an array of stubs that each have a
\* value and a display, and no display equals the group's displayName
\* ignoring letter case; otherwise it returns the group and its meta with
\* every stub's id a member typed User, the members it does not name kept,
\* and nothing else changed.
C33_AddMembers ==
    \A id \in DOMAIN groups, path \in AddPaths, value \in AddValues :
        LET stored == stored_parts(groups[id])
            r == apply_group_add_op(path, value, stored)
            valid ==
                /\ path # None
                /\ lower_chars(Unwrap(path)) = MEMBERS
                /\ complete_stubs(value)
                /\ \A i \in 1..Len(value.items) :
                      to_lowercase(field(value.items[i], "display"))
                          # to_lowercase(stored.display_name)
        IN IF ~valid THEN r = PatchErr("invalid")
           ELSE /\ r.status = "ok"
                /\ LET updated == Unwrap(r.resource)
                       old == members_or_empty(stored)
                       ms == members_or_empty(updated)
                       named == {to_lowercase(v) : v \in stub_ids(value.items)}
                   IN /\ updated = [stored EXCEPT !.members = updated.members]
                      /\ (value.items = <<>>) => updated.members = stored.members
                      /\ member_keys(ms) = member_keys(old) \cup named
                      /\ Cardinality(ms) = Cardinality(member_keys(ms))
                      /\ \A m \in old : member_key(m) \notin named => m \in ms
                      /\ \A m \in ms :
                            member_key(m) \in named =>
                                /\ m.resource_type = Some("User")
                                /\ Unwrap(m.value) \in stub_ids(value.items)

\* a PATCH added u2 to a group that held u1 only, and an add whose display
\* is the group's displayName in another letter case is Invalid on the
\* stored group
C33_Witness ==
    /\ patch[1].pc = "done"
    /\ patch[1].status = "ok"
    /\ patch[1].request = request_of(<<AddMember("u2", "dwight")>>)
    /\ member_ids(Unwrap(patch[1].base)) = {"u1"}
    /\ member_ids(groups[patch[1].id]) = {"u1", "u2"}
    /\ groups[patch[1].id].display_name = "sales"
    /\ apply_group_add_op(Some(MEMBERS), JArray(<<Stub("u1", "Sales")>>),
                          groups[patch[1].id]) = PatchErr("invalid")

\* the id of a user of the model in the other letter case
other_case(id) == CASE id = "u1" -> "U1" [] id = "u2" -> "U2"
\* the PATCH requests that name the member id: add, remove, replace members
naming(id) ==
    {request_of(<<AddMember(id, "jim")>>), request_of(<<Remove(remove_path(id))>>),
     request_of(<<ReplaceMembers(<<ValueStub(id)>>)>>)}
same_request(request, id) ==
    CHOOSE other \in naming(other_case(id)) :
        other.operations[1].op = request.operations[1].op

\* C34: for every member of a stored group, a PATCH that names the member's
\* id in the other letter case (add, remove, replace of members) ends with
\* the status of the PATCH that names it exactly and leaves the same ids,
\* compared ignoring case, as members of the group.
C34_MemberIdsIgnoreCase ==
    \A g \in DOMAIN groups :
        \A id \in member_ids(groups[g]) \cap DOMAIN users :
            \A request \in naming(id) :
                LET exact == patch_group(users, groups, g, request, groups[g])
                    other == patch_group(users, groups, g,
                                         same_request(request, id), groups[g])
                IN /\ other.status = exact.status
                   /\ member_keys(members_or_empty(other.groups[g]))
                         = member_keys(members_or_empty(exact.groups[g]))

\* ---------------------------------------------------------------------
\* The path of a remove operation on a group, under SpecPaths:
\* parse_remove_path is applied to raw paths made of leading whitespace, an
\* attribute name, a bracket part and trailing whitespace.

PathPrefixes == {<<>>, <<" ">>}
PathAttributes == {MEMBERS, MEMBERS_CAPITAL, <<"a", "d", "d", "r", "e", "s", "s", "e", "s">>, <<"M", "e", "m", "B", "e", "r", "s">>}
PathBrackets ==
    {<<>>,
     <<"[", "v", "a", "l", "u", "e", " ", "e", "q", " ", "\"", "u", "1", "\"", "]">>,
     <<"[", "v", "a", "l", "u", "e", " ", "E", "Q", " ", "\"", "U", "2", "\"", "]">>,
     <<"[", "v", "a", "l", "u", "e", " ", "e", "q", " ", "u", "1", "]">>,
     <<"[", "v", "a", "l", "u", "e", " ", "e", "q", " ", "\"", "\"", "]">>,
     <<"[", "v", "a", "l", "u", "e", " ", "e", "q", " ", "\"", "u", "1", "\"", "]", ".", "d", "i", "s", "p", "l", "a", "y", "N", "a", "m", "e">>,
     <<"[", "v", "a", "l", "u", "e", " ", "e", "q", " ", "\"", "u", "1", "\"", "]", "[", "\"", "x", "\"", "]">>,
     <<"[", "v", "a", "l", "u", "e", " ", "e", "q", " ", "\"", "u", "1", "\"", " ", "o", "r", " ", "v", "a", "l", "u", "e", " ", "e", "q", " ", "\"", "u", "2", "\"", "]">>,
     <<"[", "t", "y", "p", "e", " ", "e", "q", " ", "\"", "w", "o", "r", "k", "\"", "]">>,
     <<"[", "v", "a", "l", "u", "e", " ", "e", "q", " ", "\"", "u", "1", "\"">>}
PathSuffixes == {<<>>, <<" ">>}
RawPaths ==
    {p \o a \o b \o x :
        p \in PathPrefixes, a \in PathAttributes, b \in PathBrackets,
        x \in PathSuffixes}

InitPaths ==
    /\ users = <<>>
    /\ groups = <<>>
    /\ issued = {}
    /\ last = [op |-> "new", status |-> "ok", raw |-> <<>>, value |-> <<>>]
    /\ patch = [c \in Clients |-> NoPatch]
    /\ lock = None
    /\ thread = [t \in Threads |-> Idle]
    /\ committed = [users |-> users, groups |-> groups]
    /\ meta = <<>>
    /\ clock = 0

ParseRemovePath ==
    \E raw \in RawPaths :
        LET r == parse_remove_path(raw) IN
        /\ last' = [op |-> "parse_remove_path", status |-> r.kind, raw |-> raw,
                    value |-> r.value]
        /\ UNCHANGED <<users, groups, issued, patch, sync>>

NextPaths == ParseRemovePath

SpecPaths == InitPaths /\ [][NextPaths]_vars

\* the path cs is  members[value eq "id"]  with a non-empty id that holds
\* no quote and no bracket
single_member_path(cs) ==
    /\ starts_with(cs, MEMBERS_VALUE_EQ \o QUOTE)
    /\ ends_with(cs, QUOTE \o <<"]">>)
    /\ Len(cs) > Len(MEMBERS_VALUE_EQ) + 3
    /\ LET id == SubSeq(cs, Len(MEMBERS_VALUE_EQ) + 2, Len(cs) - 2)
       IN ~contains(id, QUOTE) /\ ~contains(id, <<"]">>)

\* C35: parse_remove_path accepts exactly two shapes of path, after trimming
\* and ignoring letter case: members, which is All, and
\* members[value eq "id"] with a non-empty quoted id, which is Indvidual;
\* every other path, text after the closing bracket included, is Invalid.
C35_OnlyTwoPathShapes ==
    last.op = "parse_remove_path" =>
        LET cs == lower_chars(trim(last.raw)) IN
        /\ last.status = "All" <=> cs = MEMBERS
        /\ last.status = "Indvidual" <=> single_member_path(cs)
        /\ last.status \in {"All", "Indvidual", "Invalid"}

\* ---------------------------------------------------------------------
\* Concurrent creates, under SpecCreates: each of two threads makes one
\* create_user or create_group call, step by step (the lock, the uniqueness
\* check, the insert, the return), and keeps what the call returned.

RaceUserRequests ==
    {CreateUserRequest(n, Some(TRUE), None) : n \in {"dwight", "pam"}}
RaceGroupRequests ==
    {CreateGroupRequest(d, None, m) :
        d \in DisplayNames, m \in {None, Some({GroupMember(None, Some("u1"))})}}
RaceCalls ==
    {Call("create_user", "", r) : r \in RaceUserRequests}
        \cup {Call("create_group", "", r) : r \in RaceGroupRequests}

\* user u1 (jim), no group
RaceStore == create_user(<<>>, <<>>, "u1", CreateUserRequest("jim", None, None))

InitRace ==
    /\ users = RaceStore.users
    /\ groups = RaceStore.groups
    /\ issued = {"u1"}
    /\ last = [op |-> "create_user", status |-> RaceStore.status]
    /\ patch = [c \in Clients |-> NoPatch]
    /\ lock = None
    /\ thread = [t \in Threads |-> Idle]
    /\ committed = [users |-> users, groups |-> groups]
    /\ meta = <<>>
    /\ clock = 0

\* a create request arrives and its handler calls the store
CallCreate(t) ==
    /\ thread[t].pc = "idle"
    /\ \E call \in RaceCalls :
           Step(t, [Idle EXCEPT !.pc = "lock", !.op = call.op, !.id = call.id,
                                !.request = call.request])
    /\ UNCHANGED <<users, groups, issued, last, patch, time, lock, committed>>

\* create_user: the userName check, then the id of the new user is drawn;
\* the model has ids for the two racing creates (the stored u1, and u2 and
\* un for the new users)
RaceUserIds == {"u2", "un"} \ issued
UserCheck(t) ==
    LET me == thread[t] IN
    /\ me.pc = "locked"
    /\ me.op = "create_user"
    /\ IF \E u \in DOMAIN users : users[u].name = me.request.name
       THEN Step(t, Returning(me, "conflict")) /\ UNCHANGED issued
       ELSE \E id \in {i \in RaceUserIds : i = "u2" \/ "u2" \in issued} :
                /\ Step(t, [me EXCEPT !.pc = "insert", !.id = id])
                /\ issued' = issued \cup {id}
    /\ UNCHANGED <<users, groups, last, patch, time, lock, committed>>

\* create_user: state.users.insert(id, new_user)
UserInsert(t) ==
    LET me == thread[t]
        new_user == [id |-> me.id,
                     name |-> me.request.name,
                     external_id |-> me.request.external_id,
                     active |-> me.request.active,
                     groups |-> None]
    IN
    /\ me.pc = "insert"
    /\ users' = users @@ (me.id :> new_user)
    /\ Step(t, Returning(me, "ok"))
    /\ UNCHANGED <<groups, issued, last, patch, time, lock, committed>>

\* the call returns, the guard is dropped, and the handler has its answer
Return(t) ==
    /\ thread[t].pc = "unlock"
    /\ lock' = None
    /\ committed' = [users |-> users, groups |-> groups]
    /\ last' = [op |-> thread[t].op, status |-> thread[t].status]
    /\ Step(t, [thread[t] EXCEPT !.pc = "done"])
    /\ UNCHANGED <<users, groups, issued, patch, time>>

NextCreates ==
    \E t \in Threads :
        \/ CallCreate(t)
        \/ Lock(t)
        \/ UserCheck(t)
        \/ UserInsert(t)
        \/ GroupCheck(t)
        \/ Member(t)
        \/ Write(t)
        \/ Return(t)

SpecCreates == InitRace /\ [][NextCreates]_vars

\* the name a create call asks for
requested_name(me) ==
    IF me.op = "create_user" THEN me.request.name ELSE me.request.display_name
same_name(a, b) == a.op = b.op /\ requested_name(a) = requested_name(b)

\* C36: of two concurrent create_user calls with the same userName, or two
\* concurrent create_group calls with the same displayName, exactly one
\* succeeds and the other fails with Conflict; the check and the insert of
\* one call are never interleaved with those of the other, so no two stored
\* users share a userName and no two stored groups a displayName.
C36_OneCreateWins ==
    /\ \A t \in Threads : thread[t].pc \in Holding \cup {"insert"} => lock = Some(t)
    /\ \A t, r \in Threads :
           /\ t # r
           /\ thread[t].pc = "done" /\ thread[r].pc = "done"
           /\ same_name(thread[t], thread[r])
           => {thread[t].status, thread[r].status} = {"ok", "conflict"}
    /\ \A t, r \in Threads :
           /\ t # r
           /\ thread[t].pc = "done" /\ thread[t].status = "ok"
           /\ thread[r].pc \notin {"idle", "lock", "done"}
           /\ same_name(thread[t], thread[r])
           => thread[r].status \in {"none", "conflict"} /\ thread[r].pc # "insert"
    /\ \A u, v \in DOMAIN users : users[u].name = users[v].name => u = v
    /\ \A g, h \in DOMAIN groups :
           groups[g].display_name = groups[h].display_name => g = h

\* both threads asked for the same name while neither held the lock, and
\* both calls have returned: one created the user or group, the other got
\* Conflict
C36_Witness ==
    /\ thread[1].pc = "done" /\ thread[2].pc = "done"
    /\ same_name(thread[1], thread[2])
    /\ thread[1].op = "create_group"
    /\ thread[1].status = "conflict" /\ thread[2].status = "ok"
    /\ \E g \in DOMAIN groups :
           groups[g].display_name = thread[2].request.display_name
    /\ Cardinality(DOMAIN groups) = 1

\* ---------------------------------------------------------------------
\* Requests that name the same user more than once, under SpecTwice: the
\* group calls of the store and the PATCH of one client, on a store with
\* users u1 and u2 and group g1 (sales, member u1).

TwiceGroupRequests ==
    {CreateGroupRequest(d, None, ms) :
        d \in DisplayNames,
        ms \in {None,
                Some({GroupMember(None, Some("u1")), GroupMember(None, Some("u2"))}),
                Some({GroupMember(None, Some("u1")), GroupMember(None, Some(UnknownId))})}}
TwicePatchRequests ==
    {request_of(ops) :
        ops \in {<<AddTwice("u2", "dwight")>>,
                 <<ReplaceMembers(<<ValueStub("u2"), Stub("u2", "dwight")>>)>>,
                 <<Remove(MEMBERS)>>}}

NextTwice ==
    \/ CreateGroupWith(TwiceGroupRequests)
    \/ ReplaceGroupWith(TwiceGroupRequests)
    \/ DeleteGroup
    \/ PatchGroupLoad(1, TwicePatchRequests)
    \/ PatchGroupCommit(1)

SpecTwice == InitLock /\ [][NextTwice]_vars

\* C37: no user's groups holds two entries for one group id, and no group's
\* members holds two members for one user id, in any reachable state, the
\* states after a request that lists the same user twice included.
C37_NoDuplicateEntries ==
    /\ \A u \in DOMAIN users :
           \A g \in user_group_ids(users[u]) : count_entries(users[u], g) = 1
    /\ \A g \in DOMAIN groups :
           /\ UniqueKeys(members_or_empty(groups[g]))
           /\ \A id \in member_ids(groups[g]) : count_members(groups[g], id) = 1

\* a PATCH that listed u2 twice has committed: the group has one member u2,
\* and u2 one entry for the group
C37_Witness ==
    /\ last = [op |-> "patch_group", status |-> "ok"]
    /\ patch[1].pc = "done"
    /\ patch[1].request \in
           {request_of(<<AddTwice("u2", "dwight")>>),
            request_of(<<ReplaceMembers(<<ValueStub("u2"), Stub("u2", "dwight")>>)>>)}
    /\ count_members(groups[patch[1].id], "u2") = 1
    /\ count_entries(users["u2"], patch[1].id) = 1

\* ---------------------------------------------------------------------
\* What the user calls of the store leave alone, under SpecMeta

\* the users other than id, the groups, and the meta of all of them
others_kept(us, gs, id, r) ==
    /\ r.groups = gs
    /\ \A u \in DOMAIN us \ {id} : u \in DOMAIN r.users /\ r.users[u] = us[u]
\* replace_user on the store (us, gs): nothing but the target changes, and
\* of the target only userName, active and externalId
replace_user_frame(us, gs, id, req) ==
    LET r == replace_user(us, gs, id, req) IN
    /\ others_kept(us, gs, id, r)
    /\ DOMAIN r.users = DOMAIN us
    /\ id \in DOMAIN us =>
          /\ r.users[id].id = us[id].id
          /\ r.users[id].groups = us[id].groups
          /\ r.status = "ok" =>
                r.users[id] = [us[id] EXCEPT !.name = req.name,
                                             !.active = req.active,
                                             !.external_id = req.external_id]
          /\ r.status # "ok" => r.users[id] = us[id]
\* create_user on the store (us, gs): the new user has no groups, nothing
\* stored changes
create_user_frame(us, gs, id, req) ==
    LET r == create_user(us, gs, id, req) IN
    /\ others_kept(us, gs, id, r)
    /\ r.status = "ok" =>
          /\ DOMAIN r.users = DOMAIN us \cup {id}
          /\ r.users[id].groups = None
    /\ r.status # "ok" => r.users = us

FrameUserRequests ==
    {CreateUserRequest("dwight", None, None),
     CreateUserRequest("jim", Some(FALSE), Some("ext2")),
     CreateUserRequest("pam", Some(TRUE), None)}

\* C38: replace_user changes, of the target user, userName, active,
\* externalId and lastModified only: the target's id, groups, created and
\* version, every other user, every group and the meta of all of them are
\* as before; create_user stores the new user without groups and changes no
\* stored user, group or meta.  This holds for the calls the specification
\* makes, and for every call on every reachable state.
C38_UserWritesFrame ==
    [][/\ \A req \in FrameUserRequests :
             /\ \A id \in DOMAIN users \cup {UnknownId} :
                    replace_user_frame(users, groups, id, req)
             /\ \A id \in (UserIds \ issued) \cup {UnknownId} :
                    create_user_frame(users, groups, id, req)
       /\ last'.op \in {"replace_user", "create_user"} =>
             /\ groups' = groups
             /\ \A i \in DOMAIN meta \ {last'.id} :
                    i \in DOMAIN meta' /\ meta'[i] = meta[i]
             /\ \A u \in DOMAIN users \ {last'.id} :
                    u \in DOMAIN users' /\ users'[u] = users[u]
       /\ last'.op = "replace_user" /\ last'.id \in DOMAIN users =>
             /\ DOMAIN users' = DOMAIN users
             /\ users'[last'.id].id = users[last'.id].id
             /\ users'[last'.id].groups = users[last'.id].groups
             /\ meta'[last'.id].created = meta[last'.id].created
             /\ meta'[last'.id].version = meta[last'.id].version
       /\ last'.op = "create_user" /\ last'.status = "ok" =>
             /\ last'.id \notin DOMAIN users
             /\ users'[last'.id].groups = None]_vars

\* a replace_user has renamed a user who holds an entry for a group: the
\* entry is still there, the group still lists the user, and lastModified
\* is later than created
C38_Witness ==
    /\ last.op = "replace_user" /\ last.status = "ok"
    /\ users[last.id].name = "dwight"
    /\ \E g \in DOMAIN groups :
           /\ last.id \in member_ids(groups[g])
           /\ count_entries(users[last.id], g) = 1
    /\ meta[last.id].last_modified > meta[last.id].created

\* ---------------------------------------------------------------------
\* The entries of the users' groups and the groups they name, under Spec

\* C39: every entry of a user's groups has type Direct, and its display is
\* the displayName the group it names has now, whenever that group is
\* stored; in particular after a replace_group that renames the group.
C39_EntriesNameTheirGroup ==
    \A u \in DOMAIN users :
        \A e \in entries_of(users[u]) :
            /\ e.member_type = Some("Direct")
            /\ Unwrap(e.value) \in DOMAIN groups =>
                  e.display = Some(groups[Unwrap(e.value)].display_name)
====
